---- MODULE Spec2Model ----
(***************************************************************************)
(* Identity resolution and deduplication engine of the client-card OCR     *)
(* pipeline: client_card_ocr.group_by_client, deduplicate_pages and        *)
(* verify_with_db.match_names, translated from the Python source.          *)
(*                                                                         *)
(* Text is a sequence of one-character strings.  Cyrillic letters are      *)
(* written in Latin transliteration; the letter U+0451 (io) is the token   *)
(* "yo" and U+0435 (ie) is "e".  Similarity scores are exact rationals     *)
(* <<numerator, denominator>>.  A Python dict is a sequence of             *)
(* <<key, value>> pairs in insertion order; a Python value is a record     *)
(* tagged by its type.                                                     *)
(***************************************************************************)
EXTENDS Integers, Sequences, FiniteSets, TLC

VARIABLES
    results,         \* group_by_client: the input batch (list of page records)
    sorted_results,  \* group_by_client: the batch sorted by page-type priority
    clients,         \* the clusters dict, in insertion order
    unmatched,       \* group_by_client: pages set aside in the main loop
    remaining,       \* group_by_client: unmatched pages no cluster took
    idx,             \* position of the running loop of group_by_client
    pc,              \* position in group_by_client / deduplicate_pages
    rapidfuzz,       \* whether `from rapidfuzz import fuzz` succeeds
    grouped_in,      \* deduplicate_pages: its argument as it was at the call
    ck,              \* deduplicate_pages: index of the cluster being scanned
    page_hashes,     \* deduplicate_pages: signatures of the current cluster
    to_remove,       \* deduplicate_pages: indexes marked for removal
    i,               \* deduplicate_pages: outer loop index (0-based)
    j,               \* deduplicate_pages: inner loop index (0-based)
    is_duplicate,    \* deduplicate_pages: verdict of the last pair comparison
    ocr_name,        \* match_names: first argument
    db_name,         \* match_names: second argument
    SUBSTRING_WORD_BOUNDARY_ONLY,  \* config toggle read by match_names
    score,           \* match_names: the returned score
    fuzzy_threshold, \* group_by_client: the configured FUZZY_NAME_THRESHOLD
    ocr_threshold,   \* deduplicate_pages: the configured OCR_DUPLICATE_THRESHOLD
    arg,             \* a normalizer call: the pair of values it is applied to
    ret,             \* a normalizer call: the pair of returned strings
    db_df,           \* load_db: the registry rows with name_norm, phone_norm
    db_index,        \* build_db_client_index: the index, in insertion order
    clients_sheet,   \* verify_clients: the client rows (name and phone cells)
    db_threshold,    \* verify_clients / find_best_match: the threshold argument
    row_idx,         \* verify_clients: number of the row being verified
    match,           \* verify_clients: what find_best_match returned last
    verified,        \* verify_clients: the result rows built so far
    rerun,           \* whether deduplicate_pages is running on its own output
    image_files,     \* process_all_images: the sorted listing of the input folder
    registry_file,   \* the processed registry on disk (its keys)
    cache_files,     \* the images that have a cache file
    registry,        \* process_all_images: the registry in memory (its keys)
    new_files,       \* process_all_images: the images not in the registry
    page_results,    \* process_all_images: its results list
    file_idx,        \* process_all_images: position in new_files (1-based)
    attempt,         \* process_all_images: the attempt counter of the retry loop
    runs             \* number of pipeline runs started so far

gvars == <<results, sorted_results, clients, unmatched, remaining, idx>>
dvars == <<grouped_in, ck, page_hashes, to_remove, i, j, is_duplicate>>
nvars == <<ocr_name, db_name, SUBSTRING_WORD_BOUNDARY_ONLY, score>>
cvars == <<fuzzy_threshold, ocr_threshold>>
fvars == <<arg, ret>>
vvars == <<db_df, db_index, clients_sheet, db_threshold, row_idx, match, verified>>
ivars == <<image_files, registry_file, cache_files, registry, new_files,
           page_results, file_idx, attempt, runs>>
pvars == <<rerun, ivars>>
xvars == <<cvars, fvars, vvars, pvars>>
vars == <<results, sorted_results, clients, unmatched, remaining, idx, pc,
          rapidfuzz, grouped_in, ck, page_hashes, to_remove, i, j,
          is_duplicate, ocr_name, db_name, SUBSTRING_WORD_BOUNDARY_ONLY, score,
          fuzzy_threshold, ocr_threshold, arg, ret, db_df, db_index, clients_sheet,
          db_threshold, row_idx, match, verified, rerun,
          image_files, registry_file, cache_files, registry, new_files,
          page_results, file_idx, attempt, runs>>

(***************************************************************************)
(* Python str primitives                                                   *)
(***************************************************************************)

\* Code-point order of the characters the model uses.
CodePoints ==
    <<" ", "(", ")", "+", "-", ".", "0", "1", "2", "3", "4", "5", "6", "7", "8", "9",
      "A", "F", "I", "O", "P", "[", "]",
      "a", "b", "c", "d", "e", "f", "i", "k", "l", "n", "o", "p", "r", "s", "t",
      "v", "x", "z", "yo">>

Ord(c) == CHOOSE n \in 1..Len(CodePoints) : CodePoints[n] = c

\* str.lower() on one character
LowerChar(c) ==
    CASE c = "A" -> "a"
      [] c = "F" -> "f"
      [] c = "I" -> "i"
      [] c = "O" -> "o"
      [] c = "P" -> "p"
      [] OTHER -> c

Lower(s) == [n \in 1..Len(s) |-> LowerChar(s[n])]

\* s1 < s2 in Python's lexicographic string order
RECURSIVE StrLess(_, _)
StrLess(s1, s2) ==
    IF s2 = <<>> THEN FALSE
    ELSE IF s1 = <<>> THEN TRUE
    ELSE IF s1[1] = s2[1] THEN StrLess(Tail(s1), Tail(s2))
    ELSE Ord(s1[1]) < Ord(s2[1])

\* str.split(): the maximal runs of non-whitespace characters
RECURSIVE SplitFrom(_, _, _)
SplitFrom(s, n, cur) ==
    IF n > Len(s) THEN (IF cur = <<>> THEN <<>> ELSE <<cur>>)
    ELSE IF s[n] = " "
         THEN (IF cur = <<>> THEN <<>> ELSE <<cur>>) \o SplitFrom(s, n + 1, <<>>)
         ELSE SplitFrom(s, n + 1, Append(cur, s[n]))

Split(s) == SplitFrom(s, 1, <<>>)

\* " ".join(words)
RECURSIVE Join(_)
Join(words) ==
    IF words = <<>> THEN <<>>
    ELSE IF Len(words) = 1 THEN words[1]
    ELSE words[1] \o <<" ">> \o Join(Tail(words))

\* str.strip()
RECURSIVE LStrip(_)
LStrip(s) == IF s # <<>> /\ s[1] = " " THEN LStrip(Tail(s)) ELSE s

RECURSIVE RStrip(_)
RStrip(s) ==
    IF s # <<>> /\ s[Len(s)] = " " THEN RStrip(SubSeq(s, 1, Len(s) - 1)) ELSE s

Strip(s) == RStrip(LStrip(s))

\* s.replace(c, "") for every c of `drop`
RECURSIVE RemoveChars(_, _)
RemoveChars(s, drop) ==
    IF s = <<>> THEN <<>>
    ELSE (IF s[1] \in drop THEN <<>> ELSE <<s[1]>>) \o RemoveChars(Tail(s), drop)

\* s.replace(old, new) for single characters
ReplaceChar(s, old, new) == [n \in 1..Len(s) |-> IF s[n] = old THEN new ELSE s[n]]

\* s[-7:]
Last7(s) == IF Len(s) <= 7 THEN s ELSE SubSeq(s, Len(s) - 6, Len(s))

\* sorted(words): insertion into an ordered list (stable)
RECURSIVE InsertSorted(_, _)
InsertSorted(w, ws) ==
    IF ws = <<>> THEN <<w>>
    ELSE IF StrLess(w, ws[1]) THEN <<w>> \o ws
    ELSE <<ws[1]>> \o InsertSorted(w, Tail(ws))

RECURSIVE SortWords(_)
SortWords(ws) ==
    IF ws = <<>> THEN <<>>
    ELSE InsertSorted(ws[Len(ws)], SortWords(SubSeq(ws, 1, Len(ws) - 1)))

\* s1 in s2 (substring test)
IsSubstring(s1, s2) ==
    \E n \in 0..(Len(s2) - Len(s1)) : SubSeq(s2, n + 1, n + Len(s1)) = s1

(***************************************************************************)
(* Scores: exact rationals <<n, d>> with d > 0                             *)
(***************************************************************************)

Rat(n, d) == <<n, d>>
RatGE(a, b) == a[1] * b[2] >= b[1] * a[2]
RatLT(a, b) == a[1] * b[2] < b[1] * a[2]
RatEQ(a, b) == a[1] * b[2] = b[1] * a[2]
RatAdd(a, b) == <<a[1] * b[2] + b[1] * a[2], a[2] * b[2]>>
RatMax(a, b) == IF RatGE(a, b) THEN a ELSE b
Zero == Rat(0, 1)
One == Rat(1, 1)

(***************************************************************************)
(* String similarity backends                                              *)
(***************************************************************************)

Max(a, b) == IF a >= b THEN a ELSE b

SetMax(S) == CHOOSE x \in S : \A y \in S : y <= x
SetMin(S) == CHOOSE x \in S : \A y \in S : x <= y

\* Length of the common run of a[x..ahi] and b[y..bhi] starting at x and y.
RECURSIVE RunLen(_, _, _, _, _, _)
RunLen(a, b, x, y, ahi, bhi) ==
    IF x > ahi \/ y > bhi THEN 0
    ELSE IF a[x] # b[y] THEN 0
    ELSE 1 + RunLen(a, b, x + 1, y + 1, ahi, bhi)

\* difflib.SequenceMatcher.find_longest_match without junk: the longest
\* matching block of a[alo..ahi] and b[blo..bhi]; of the longest ones the one
\* starting earliest in a, and of those the one starting earliest in b.
find_longest_match(a, b, alo, ahi, blo, bhi) ==
    LET cand == (alo..ahi) \X (blo..bhi)
        lens == [p \in cand |-> RunLen(a, b, p[1], p[2], ahi, bhi)]
        k    == SetMax({lens[p] : p \in cand})
        best == {p \in cand : lens[p] = k}
        x    == SetMin({p[1] : p \in best})
        y    == SetMin({p[2] : p \in {q \in best : q[1] = x}})
    IN  [i |-> x, j |-> y, size |-> k]

\* Sum of the sizes of SequenceMatcher.get_matching_blocks(): the longest
\* block, then the same to its left and to its right.
RECURSIVE MatchingTotal(_, _, _, _, _, _)
MatchingTotal(a, b, alo, ahi, blo, bhi) ==
    IF alo > ahi \/ blo > bhi THEN 0
    ELSE LET m == find_longest_match(a, b, alo, ahi, blo, bhi)
         IN  IF m.size = 0 THEN 0
             ELSE m.size
                  + MatchingTotal(a, b, alo, m.i - 1, blo, m.j - 1)
                  + MatchingTotal(a, b, m.i + m.size, ahi, m.j + m.size, bhi)

\* difflib.SequenceMatcher(None, a, b).ratio() = 2.0 * matches / length
SequenceMatcherRatio(a, b) ==
    IF Len(a) + Len(b) = 0 THEN One
    ELSE Rat(2 * MatchingTotal(a, b, 1, Len(a), 1, Len(b)), Len(a) + Len(b))

\* Longest common subsequence, row by row: row[c] is the length for the
\* prefix of a read so far and b[1..c].  The last character ch of the prefix is
\* either left out (prev[c]) or paired with an equal b[d], d <= c.
RECURSIVE LcsRow(_, _, _, _)
LcsRow(prev, ch, b, c) ==
    IF c > Len(b) THEN <<>>
    ELSE <<SetMax({prev[c]} \cup
                  {(IF d = 1 THEN 0 ELSE prev[d - 1]) + 1 : d \in {e \in 1..c : b[e] = ch}})>>
         \o LcsRow(prev, ch, b, c + 1)

RECURSIVE LcsRows(_, _, _, _)
LcsRows(a, b, row, prev) ==
    IF row > Len(a) THEN prev
    ELSE LET r == LcsRow(prev, a[row], b, 1)
         IN  IF Len(r) = Len(b) THEN LcsRows(a, b, row + 1, r) ELSE <<>>

LcsLen(a, b) ==
    IF Len(a) = 0 \/ Len(b) = 0 THEN 0
    ELSE LcsRows(a, b, 1, [n \in 1..Len(b) |-> 0])[Len(b)]

\* rapidfuzz.fuzz.ratio(a, b) / 100.0: the normalized Indel similarity,
\* 1 - (len(a) + len(b) - 2 * lcs) / (len(a) + len(b)).
RapidfuzzRatio(a, b) ==
    IF Len(a) + Len(b) = 0 THEN One
    ELSE Rat(2 * LcsLen(a, b), Len(a) + Len(b))

\* rapidfuzz.fuzz.token_sort_ratio(a, b) / 100.0: ratio of the two strings
\* with their whitespace-separated tokens sorted.
RapidfuzzTokenSortRatio(a, b) ==
    RapidfuzzRatio(Join(SortWords(Split(a))), Join(SortWords(Split(b))))

(***************************************************************************)
(* Python values and dicts                                                 *)
(***************************************************************************)

PyStr(s) == [t |-> "str", v |-> s]
PyInt(digits) == [t |-> "int", v |-> digits]
PyDict(items) == [t |-> "dict", v |-> items]
PyList(items) == [t |-> "list", v |-> items]
PyNone == [t |-> "none", v |-> <<>>]
\* A float, held as the text str() gives for it ("nan" for a missing cell)
PyFloat(repr) == [t |-> "float", v |-> repr]
EmptyStr == PyStr(<<>>)

\* bool(x)
Truthy(x) ==
    CASE x.t = "none" -> FALSE
      [] x.t = "int" -> x.v # <<"0">>
      [] x.t = "float" -> x.v # <<"0", ".", "0">>
      [] OTHER -> x.v # <<>>

\* key in d, d[key] and d.get(key, default) for a dict's item list
DictHas(items, key) == \E n \in 1..Len(items) : items[n][1] = key
DictGet(items, key) ==
    items[CHOOSE n \in 1..Len(items) : items[n][1] = key][2]
DictGetDefault(items, key, default) ==
    IF DictHas(items, key) THEN DictGet(items, key) ELSE default

\* d.setdefault(key, value): an existing key keeps its value
DictSetDefault(items, key, value) ==
    IF DictHas(items, key) THEN items ELSE Append(items, <<key, value>>)

\* Code-point order of the dict keys the model uses.  The keys of the source
\* written in Cyrillic carry the prefix "ru:" and sort after the ASCII keys.
KeyOrder ==
    <<"client_name", "contact", "contacts", "document", "error", "fio", "iin", "name",
      "patient", "patient_info", "patient_name", "phone", "some",
      "ru:iin", "ru:patsient", "ru:telefon", "ru:fio">>

KeyRank(key) == CHOOSE n \in 1..Len(KeyOrder) : KeyOrder[n] = key

RECURSIVE InsertItem(_, _)
InsertItem(it, items) ==
    IF items = <<>> THEN <<it>>
    ELSE IF KeyRank(it[1]) < KeyRank(items[1][1]) THEN <<it>> \o items
    ELSE <<items[1]>> \o InsertItem(it, Tail(items))

RECURSIVE SortItems(_)
SortItems(items) ==
    IF items = <<>> THEN <<>>
    ELSE InsertItem(items[Len(items)], SortItems(SubSeq(items, 1, Len(items) - 1)))

\* json.dumps(value, sort_keys=True, ensure_ascii=False), as a token sequence
RECURSIVE json_dumps(_)
RECURSIVE DumpItems(_)
RECURSIVE DumpElems(_)
DumpItems(items) ==
    IF items = <<>> THEN <<>>
    ELSE <<"\"", items[1][1], "\"", ":", " ">> \o json_dumps(items[1][2])
         \o (IF Len(items) = 1 THEN <<>> ELSE <<",", " ">> \o DumpItems(Tail(items)))
DumpElems(elems) ==
    IF elems = <<>> THEN <<>>
    ELSE json_dumps(elems[1])
         \o (IF Len(elems) = 1 THEN <<>> ELSE <<",", " ">> \o DumpElems(Tail(elems)))
json_dumps(x) ==
    CASE x.t = "none" -> <<"null">>
      [] x.t = "str" -> <<"\"">> \o x.v \o <<"\"">>
      [] x.t = "int" -> x.v
      [] x.t = "list" -> <<"[">> \o DumpElems(x.v) \o <<"]">>
      [] x.t = "dict" -> <<"{">> \o DumpItems(SortItems(x.v)) \o <<"}">>

(***************************************************************************)
(* Identifier extraction (client_card_ocr.py, section 3)                   *)
(***************************************************************************)

\* Follows one path of keys through nested dicts.
RECURSIVE WalkPath(_, _)
WalkPath(cur, path) ==
    IF path = <<>> THEN [ok |-> TRUE, val |-> cur]
    ELSE IF cur.t = "dict" /\ DictHas(cur.v, path[1])
         THEN WalkPath(DictGet(cur.v, path[1]), Tail(path))
         ELSE [ok |-> FALSE, val |-> PyNone]

RECURSIVE _pick_first(_, _)
_pick_first(data, paths) ==
    IF paths = <<>> THEN PyNone
    ELSE LET w == WalkPath(data, paths[1])
         IN  IF w.ok /\ w.val.t # "none" /\ w.val # EmptyStr
                /\ w.val.t \notin {"dict", "list"}
             THEN w.val
             ELSE _pick_first(data, Tail(paths))

\* str(value) for a scalar
PyToStr(x) == x.v

_normalize_simple(value) ==
    IF value.t = "none" THEN <<>>
    ELSE Join(Split(ReplaceChar(PyToStr(value), "yo", "e")))

aliases_fio ==
    << <<"ru:patsient", "ru:fio">>, <<"patient_info", "name">>, <<"fio">>,
       <<"patient_name">>, <<"document", "patient_name">>, <<"client_name">>,
       <<"patient">> >>
aliases_phone ==
    << <<"phone">>, <<"contact">>, <<"contacts">>, <<"patient_info", "phone">>,
       <<"ru:patsient", "ru:telefon">> >>
aliases_iin ==
    << <<"ru:patsient", "ru:iin">>, <<"iin">>, <<"patient_info", "iin">> >>

EmptyIds == <<<<"fio", EmptyStr>>, <<"phone", EmptyStr>>, <<"iin", EmptyStr>>>>

\* Returns the item list of the enriched payload.
collect_name_phone_iin(data) ==
    IF data.t # "dict" THEN EmptyIds
    ELSE LET fio   == _pick_first(data, aliases_fio)
             phone == _pick_first(data, aliases_phone)
             iin   == _pick_first(data, aliases_iin)
             e1 == IF Truthy(fio)
                   THEN DictSetDefault(data.v, "fio", PyStr(_normalize_simple(fio)))
                   ELSE data.v
             e2 == IF Truthy(phone)
                   THEN DictSetDefault(e1, "phone", PyStr(_normalize_simple(phone)))
                   ELSE e1
         IN  IF Truthy(iin)
             THEN DictSetDefault(e2, "iin", PyStr(_normalize_simple(iin)))
             ELSE e2

extract_identifiers(result) ==
    LET data == collect_name_phone_iin(result.data)
    IN  [fio   |-> DictGetDefault(data, "fio", EmptyStr),
         phone |-> DictGetDefault(data, "phone", EmptyStr),
         iin   |-> DictGetDefault(data, "iin", EmptyStr)]

(***************************************************************************)
(* Fuzzy grouping primitives (client_card_ocr.py, section 6)               *)
(***************************************************************************)

FUZZY_NAME_THRESHOLD == Rat(3, 4)
OCR_DUPLICATE_THRESHOLD == Rat(9, 10)

\* Faulty variant of normalize_name: the words are not sorted.
normalize_name_Unsorted(name) ==
    IF name = <<>> THEN <<>> ELSE Join(Split(Lower(Strip(name))))

\* client_card_ocr.normalize_name: strip, lower-case, sort the words
normalize_name(name) ==
    IF name = <<>> THEN <<>> ELSE Join(SortWords(Split(Lower(Strip(name)))))

\* client_card_ocr.fuzzy_match on two str values; rf tells whether the
\* rapidfuzz backend was imported.
fuzzy_match(name1, name2, rf) ==
    IF name1 = <<>> \/ name2 = <<>> THEN Zero
    ELSE LET n1 == normalize_name(name1)
             n2 == normalize_name(name2)
         IN  IF n1 = n2 THEN One
             ELSE IF rf THEN RapidfuzzTokenSortRatio(n1, n2)
             ELSE SequenceMatcherRatio(n1, n2)

\* fuzzy_match calls str methods on both names: a truthy value that is not a
\* str has none of them and the call raises AttributeError.
FuzzyMatchRaises(name1, name2) ==
    /\ Truthy(name1) /\ Truthy(name2)
    /\ (name1.t # "str" \/ name2.t # "str")

StripPhone(s) == RemoveChars(s, {" ", "-", "+"})

RAISED == -1
NO_MATCH == 0

\* Faulty variant of ScanClients: the national-id check is left out.
RECURSIVE ScanClients_NoIin(_, _, _, _, _, _, _)
ScanClients_NoIin(new_fio, new_phone, new_iin, cl, k, threshold, rf) ==
    IF k > Len(cl) THEN NO_MATCH
    ELSE LET client_data == cl[k]
             phone_checked ==
                 new_phone # <<>> /\ Len(new_phone) >= 7 /\ Truthy(client_data.phone)
             fio_checked == Truthy(new_fio) /\ Truthy(client_data.name)
         IN  IF phone_checked /\ client_data.phone.t # "str" THEN RAISED
             ELSE IF phone_checked
                     /\ StripPhone(client_data.phone.v) # <<>>
                     /\ Last7(new_phone) = Last7(StripPhone(client_data.phone.v))
             THEN k
             ELSE IF fio_checked /\ FuzzyMatchRaises(new_fio, client_data.name)
             THEN RAISED
             ELSE IF fio_checked
                     /\ RatGE(fuzzy_match(new_fio.v, client_data.name.v, rf), threshold)
             THEN k
             ELSE ScanClients_NoIin(new_fio, new_phone, new_iin, cl, k + 1, threshold, rf)

\* The loop of find_matching_client from cluster number k on: the number of
\* the first cluster that passes one of the three checks, NO_MATCH when the
\* loop ends, RAISED when a check raises.
RECURSIVE ScanClients(_, _, _, _, _, _, _)
ScanClients(new_fio, new_phone, new_iin, cl, k, threshold, rf) ==
    IF k > Len(cl) THEN NO_MATCH
    ELSE LET client_data == cl[k]
             iin_checked == new_iin # <<>> /\ Truthy(client_data.iin)
             phone_checked ==
                 new_phone # <<>> /\ Len(new_phone) >= 7 /\ Truthy(client_data.phone)
             fio_checked == Truthy(new_fio) /\ Truthy(client_data.name)
         IN  IF iin_checked /\ client_data.iin.t # "str" THEN RAISED
             ELSE IF iin_checked /\ new_iin = RemoveChars(client_data.iin.v, {" "})
             THEN k
             ELSE IF phone_checked /\ client_data.phone.t # "str" THEN RAISED
             ELSE IF phone_checked
                     /\ StripPhone(client_data.phone.v) # <<>>
                     /\ Last7(new_phone) = Last7(StripPhone(client_data.phone.v))
             THEN k
             ELSE IF fio_checked /\ FuzzyMatchRaises(new_fio, client_data.name)
             THEN RAISED
             ELSE IF fio_checked
                     /\ RatGE(fuzzy_match(new_fio.v, client_data.name.v, rf), threshold)
             THEN k
             ELSE ScanClients(new_fio, new_phone, new_iin, cl, k + 1, threshold, rf)

\* Faulty variant of find_matching_client: a threshold outside [0, 1] is
\* refused.
find_matching_client_Validating(identifiers, cl, threshold, rf) ==
    IF RatLT(threshold, Zero) \/ RatLT(One, threshold) THEN RAISED
    ELSE IF identifiers.phone.t # "str" \/ identifiers.iin.t # "str" THEN RAISED
    ELSE ScanClients(identifiers.fio,
                     StripPhone(identifiers.phone.v),
                     RemoveChars(identifiers.iin.v, {" "}),
                     cl, 1, threshold, rf)

find_matching_client(identifiers, cl, threshold, rf) ==
    IF identifiers.phone.t # "str" \/ identifiers.iin.t # "str" THEN RAISED
    ELSE ScanClients(identifiers.fio,
                     StripPhone(identifiers.phone.v),
                     RemoveChars(identifiers.iin.v, {" "}),
                     cl, 1, threshold, rf)

priority_order ==
    <<"medical_card_front", "complex_package", "procedure_sheet",
      "products_list", "medical_card_inner", "botox_record">>

\* The sort key of group_by_client
Priority(r) ==
    IF \E n \in 1..Len(priority_order) : priority_order[n] = r.page_type
    THEN (CHOOSE n \in 1..Len(priority_order) : priority_order[n] = r.page_type) - 1
    ELSE 99

\* sorted(results, key=...): stable
RECURSIVE InsertByPriority(_, _)
InsertByPriority(r, rs) ==
    IF rs = <<>> THEN <<r>>
    ELSE IF Priority(r) < Priority(rs[1]) THEN <<r>> \o rs
    ELSE <<rs[1]>> \o InsertByPriority(r, Tail(rs))

RECURSIVE SortByPriority(_)
SortByPriority(rs) ==
    IF rs = <<>> THEN <<>>
    ELSE InsertByPriority(rs[Len(rs)], SortByPriority(SubSeq(rs, 1, Len(rs) - 1)))

NoFio == <<"(", "b", "e", "z", " ", "F", "I", "O", ")">>
Undetermined == <<"n", "e", " ", "o", "p", "r", "e", "d", "e", "l", "e", "n">>

ClientKeys == <<"client_1", "client_2", "client_3", "client_4", "client_5", "client_6">>
ClientKey(n) == ClientKeys[n]

\* clients[key] = value: replaces the value of an existing key in place
ClientsSet(cl, key, value) ==
    IF \E n \in 1..Len(cl) : cl[n].key = key
    THEN [n \in 1..Len(cl) |-> IF cl[n].key = key THEN value ELSE cl[n]]
    ELSE Append(cl, value)

(***************************************************************************)
(* Page records and image files                                            *)
(***************************************************************************)

IMAGE_HASH_SIZE == 16

NPixels == IMAGE_HASH_SIZE * IMAGE_HASH_SIZE

\* A grayscale image already resized to IMAGE_HASH_SIZE x IMAGE_HASH_SIZE:
\* the first `bright` pixels are light, the others dark.
Image(bright) == [n \in 1..NPixels |-> IF n <= bright THEN 200 ELSE 50]

\* The image files on disk.  "corrupt.jpg" exists and cannot be decoded; a
\* path outside the domain does not exist.
ImageFiles ==
    [path \in {"a.jpg", "a25.jpg", "a26.jpg", "b.jpg", "corrupt.jpg"} |->
        CASE path = "a.jpg"   -> [readable |-> TRUE, pixels |-> Image(128)]
          [] path = "a25.jpg" -> [readable |-> TRUE, pixels |-> Image(153)]
          [] path = "a26.jpg" -> [readable |-> TRUE, pixels |-> Image(154)]
          [] path = "b.jpg"   -> [readable |-> TRUE, pixels |-> Image(40)]
          [] OTHER            -> [readable |-> FALSE, pixels |-> <<>>]]

\* sum(pixels[lo..hi]), by halves
RECURSIVE SumRange(_, _, _)
SumRange(sq, lo, hi) ==
    IF lo > hi THEN 0
    ELSE IF lo = hi THEN sq[lo]
    ELSE SumRange(sq, lo, (lo + hi) \div 2) + SumRange(sq, (lo + hi) \div 2 + 1, hi)

SumSeq(sq) == SumRange(sq, 1, Len(sq))

\* compute_image_hash of an existing file: one bit per pixel, set when the
\* pixel is brighter than the mean; "" when the image cannot be opened.
compute_image_hash(image_path, hash_size) ==
    IF ~ImageFiles[image_path].readable THEN <<>>
    ELSE LET pixels == ImageFiles[image_path].pixels
             total  == SumSeq(pixels)
         IN  [n \in 1..Len(pixels) |->
                 IF pixels[n] * Len(pixels) > total THEN "1" ELSE "0"]

\* hamming_distance, as the rational diff / len
hamming_distance(hash1, hash2) ==
    IF hash1 = <<>> \/ hash2 = <<>> \/ Len(hash1) # Len(hash2) THEN One
    ELSE Rat(Cardinality({n \in 1..Len(hash1) : hash1[n] # hash2[n]}), Len(hash1))

\* text_similarity of two OCR texts
text_similarity(text1, text2, rf) ==
    IF text1 = <<>> \/ text2 = <<>> THEN Zero
    ELSE LET t1 == Join(Split(Lower(text1)))
             t2 == Join(Split(Lower(text2)))
         IN  IF t1 = t2 THEN One
             ELSE IF rf THEN RapidfuzzRatio(t1, t2)
             ELSE SequenceMatcherRatio(t1, t2)

Page(page_type, data, ocr_text, filepath) ==
    [filename |-> "", page_type |-> page_type, data |-> data,
     ocr_text |-> ocr_text, filepath |-> filepath]

\* Texts used by the page records
IvanovaAnna == <<"I", "v", "a", "n", "o", "v", "a", " ", "A", "n", "n", "a">>
AnnaIvanova == <<"A", "n", "n", "a", " ", "I", "v", "a", "n", "o", "v", "a">>
Petr == <<"P", "e", "t", "r">>
PhoneMobile ==
    <<"+", "7", " ", "7", "0", "0", " ", "0", "0", "0", " ", "0", "0", " ", "0", "0">>
PhoneMobile8 ==
    <<"8", "-", "7", "0", "0", "-", "0", "0", "0", " ", "0", "0", " ", "0", "0">>
PhoneLandline == <<"8", "7", "1", "7", "2", "5", "5", "5", "5", "5", "5">>
PhoneLandlineParen ==
    <<"8", " ", "(", "7", "1", "7", "2", ")", " ", "5", "5", "-", "5", "5", "-", "5", "5">>
TextA10 == [n \in 1..10 |-> "a"]
TextA9b == [n \in 1..10 |-> IF n = 10 THEN "b" ELSE "a"]

FrontData ==
    PyDict(<< <<"fio", PyStr(IvanovaAnna)>>, <<"phone", PyStr(PhoneMobile)>> >>)
FrontDataReordered ==
    PyDict(<< <<"phone", PyStr(PhoneMobile)>>, <<"fio", PyStr(IvanovaAnna)>> >>)

\* The four pages of the end-to-end scenario
FrontPage == Page("medical_card_front", FrontData, TextA10, "a.jpg")
FrontPageCopy == Page("medical_card_front", FrontData, TextA10, "a25.jpg")
ProcedurePage ==
    Page("procedure_sheet",
         PyDict(<< <<"patient_info", PyDict(<< <<"name", PyStr(AnnaIvanova)>> >>)>> >>),
         <<"c", "d">>, "b.jpg")
UnrelatedPage ==
    Page("unknown", PyDict(<< <<"some", PyStr(<<"x">>)>> >>), <<"x">>, "")

\* Further pages
IinFrontPage ==
    Page("medical_card_front",
         PyDict(<< <<"ru:patsient",
                     PyDict(<< <<"ru:fio", PyStr(IvanovaAnna)>>,
                               <<"ru:iin", PyStr(<<"1", "2">>)>> >>)>> >>),
         <<>>, "missing.jpg")
IinPetrPage ==
    Page("procedure_sheet",
         PyDict(<< <<"fio", PyStr(Petr)>>, <<"iin", PyStr(<<"1", " ", "2">>)>> >>),
         <<"x">>, "corrupt.jpg")
PhonePetrPage ==
    Page("products_list",
         PyDict(<< <<"client_name", PyStr(Petr)>>, <<"contact", PyStr(PhoneMobile8)>> >>),
         TextA9b, "a26.jpg")
LandlinePage ==
    Page("medical_card_front",
         PyDict(<< <<"fio", PyStr(Petr)>>, <<"phone", PyStr(PhoneLandline)>> >>),
         <<>>, "")
LandlineParenPage ==
    Page("procedure_sheet",
         PyDict(<< <<"fio", PyStr(AnnaIvanova)>>, <<"phone", PyStr(PhoneLandlineParen)>> >>),
         <<>>, "")
ErrorPage ==
    Page("error", PyDict(<< <<"error", PyStr(<<"x">>)>> >>), <<>>, "a.jpg")
ErrorIinPage ==
    Page("error", PyDict(<< <<"iin", PyStr(<<"1", "2">>)>> >>), <<"x">>, "")

FileNames == <<"1.jpg", "2.jpg", "3.jpg", "4.jpg", "5.jpg", "6.jpg">>

\* A batch: each page gets the file name of its position.
WithFileNames(pages) ==
    [n \in 1..Len(pages) |-> [pages[n] EXCEPT !.filename = FileNames[n]]]

(***************************************************************************)
(* group_by_client                                                         *)
(***************************************************************************)

MaxPages == 3

PageUniverse ==
    {FrontPage, FrontPageCopy, ProcedurePage, UnrelatedPage, IinFrontPage,
     IinPetrPage, PhonePetrPage, LandlinePage, LandlineParenPage, ErrorPage,
     ErrorIinPage}

ScenarioBatch == <<FrontPage, ProcedurePage, FrontPageCopy, UnrelatedPage>>

Batches ==
    UNION {[1..n -> PageUniverse] : n \in 0..MaxPages} \cup {ScenarioBatch}

HasNoIdentifiers(ids) == ~Truthy(ids.fio) /\ ~Truthy(ids.phone) /\ ~Truthy(ids.iin)

\* Entry of group_by_client: empty dict, empty unmatched list, sorted batch.
GroupByClientCall ==
    /\ pc = "start"
    /\ sorted_results' = SortByPriority(results)
    /\ clients' = <<>>
    /\ unmatched' = <<>>
    /\ idx' = 1
    /\ pc' = "group"
    /\ UNCHANGED <<results, remaining, rapidfuzz, dvars, nvars, xvars>>

\* Faulty variant of AppendToClient: the page list is assigned, not extended.
AppendToClient_Overwrite(cl, k, result, ids, backfill) ==
    [cl EXCEPT ![k].pages = <<result>>]

\* Faulty variant of AppendToClient: the phone and the national id of the
\* page replace the ones of the cluster.
AppendToClient_Rewrite(cl, k, result, ids, backfill) ==
    [cl EXCEPT
        ![k] = [key   |-> @.key,
                name  |-> @.name,
                phone |-> IF backfill /\ Truthy(ids.phone) THEN ids.phone ELSE @.phone,
                iin   |-> IF backfill /\ Truthy(ids.iin) THEN ids.iin ELSE @.iin,
                pages |-> Append(@.pages, result)]]

\* clients[match_key]["pages"].append(result) and the backfill of an empty
\* phone / iin of the cluster.
AppendToClient(cl, k, result, ids, backfill) ==
    [cl EXCEPT
        ![k] = [key   |-> @.key,
                name  |-> @.name,
                phone |-> IF backfill /\ Truthy(ids.phone) /\ ~Truthy(@.phone)
                          THEN ids.phone ELSE @.phone,
                iin   |-> IF backfill /\ Truthy(ids.iin) /\ ~Truthy(@.iin)
                          THEN ids.iin ELSE @.iin,
                pages |-> Append(@.pages, result)]]

NewClient(cl, result, ids) ==
    ClientsSet(cl, ClientKey(Len(cl) + 1),
               [key   |-> ClientKey(Len(cl) + 1),
                name  |-> IF Truthy(ids.fio) THEN ids.fio ELSE PyStr(NoFio),
                phone |-> ids.phone,
                iin   |-> ids.iin,
                pages |-> <<result>>])

\* One iteration of the main loop of group_by_client.
GroupPage ==
    /\ pc = "group"
    /\ idx <= Len(sorted_results)
    /\ LET result == sorted_results[idx]
           ids == extract_identifiers(result)
           match_key == find_matching_client(ids, clients, fuzzy_threshold, rapidfuzz)
       IN  IF result.page_type = "error" \/ HasNoIdentifiers(ids)
           THEN /\ unmatched' = Append(unmatched, result)
                /\ idx' = idx + 1
                /\ UNCHANGED <<clients, pc>>
           ELSE IF match_key = RAISED
           THEN /\ pc' = "raised"
                /\ UNCHANGED <<clients, unmatched, idx>>
           ELSE /\ clients' = IF match_key # NO_MATCH
                              THEN AppendToClient(clients, match_key, result, ids, TRUE)
                              ELSE NewClient(clients, result, ids)
                /\ idx' = idx + 1
                /\ UNCHANGED <<unmatched, pc>>
    /\ UNCHANGED <<results, sorted_results, remaining, rapidfuzz, dvars, nvars, xvars>>

RECURSIVE existing_keys(_)
existing_keys(cl) ==
    IF cl = <<>> THEN <<>>
    ELSE (IF cl[1].key # "_unmatched" THEN <<cl[1].key>> ELSE <<>>)
         \o existing_keys(Tail(cl))

\* The main loop is over and nothing was set aside.
ReturnNoUnmatched ==
    /\ pc = "group"
    /\ idx > Len(sorted_results)
    /\ unmatched = <<>>
    /\ pc' = "grouped"
    /\ UNCHANGED <<gvars, rapidfuzz, dvars, nvars, xvars>>

\* No cluster exists: the unmatched pages become client_1.
PromoteUnmatched ==
    /\ pc = "group"
    /\ idx > Len(sorted_results)
    /\ unmatched # <<>>
    /\ existing_keys(clients) = <<>>
    /\ LET any_ids == extract_identifiers(unmatched[1])
           name == IF Truthy(any_ids.fio) THEN any_ids.fio
                   ELSE IF Truthy(any_ids.phone) \/ Truthy(any_ids.iin)
                        THEN PyStr(NoFio)
                        ELSE PyStr(Undetermined)
       IN  clients' = ClientsSet(clients, "client_1",
                                 [key |-> "client_1", name |-> name,
                                  phone |-> any_ids.phone, iin |-> any_ids.iin,
                                  pages |-> unmatched])
    /\ pc' = "grouped"
    /\ UNCHANGED <<results, sorted_results, unmatched, remaining, idx, rapidfuzz,
                   dvars, nvars, xvars>>

\* Clusters exist: start the second matching pass over the unmatched pages.
StartRematch ==
    /\ pc = "group"
    /\ idx > Len(sorted_results)
    /\ unmatched # <<>>
    /\ existing_keys(clients) # <<>>
    /\ remaining' = <<>>
    /\ idx' = 1
    /\ pc' = "rematch"
    /\ UNCHANGED <<results, sorted_results, clients, unmatched, rapidfuzz, dvars, nvars, xvars>>

\* One iteration of the second pass.
RematchPage ==
    /\ pc = "rematch"
    /\ idx <= Len(unmatched)
    /\ LET page == unmatched[idx]
           ids == extract_identifiers(page)
           match_key == IF HasNoIdentifiers(ids) THEN NO_MATCH
                        ELSE find_matching_client(ids, clients, fuzzy_threshold,
                                                  rapidfuzz)
       IN  IF match_key = RAISED
           THEN /\ pc' = "raised"
                /\ UNCHANGED <<clients, remaining, idx>>
           ELSE IF match_key # NO_MATCH
           THEN /\ clients' = AppendToClient(clients, match_key, page, ids, FALSE)
                /\ idx' = idx + 1
                /\ UNCHANGED <<remaining, pc>>
           ELSE /\ remaining' = Append(remaining, page)
                /\ idx' = idx + 1
                /\ UNCHANGED <<clients, pc>>
    /\ UNCHANGED <<results, sorted_results, unmatched, rapidfuzz, dvars, nvars, xvars>>

\* The leftovers go to the first cluster; group_by_client returns.
AttachRemaining ==
    /\ pc = "rematch"
    /\ idx > Len(unmatched)
    /\ LET primary == CHOOSE k \in 1..Len(clients) :
                          /\ clients[k].key # "_unmatched"
                          /\ \A m \in 1..(k - 1) : clients[m].key = "_unmatched"
       IN  clients' = IF remaining = <<>> THEN clients
                      ELSE [clients EXCEPT ![primary].pages = @ \o remaining]
    /\ pc' = "grouped"
    /\ UNCHANGED <<results, sorted_results, unmatched, remaining, idx, rapidfuzz,
                   dvars, nvars, xvars>>

GroupInit ==
    /\ results \in {WithFileNames(b) : b \in Batches}
    /\ rapidfuzz \in BOOLEAN
    /\ pc = "start"
    /\ sorted_results = <<>>
    /\ clients = <<>>
    /\ unmatched = <<>>
    /\ remaining = <<>>
    /\ idx = 0

\* process_all_images has not run: no registry, no cache files
ImagesIdle ==
    /\ image_files = <<>>
    /\ registry_file = {}
    /\ cache_files = {}
    /\ registry = {}
    /\ new_files = <<>>
    /\ page_results = <<>>
    /\ file_idx = 0
    /\ attempt = 0
    /\ runs = 0

DedupIdle ==
    /\ ImagesIdle
    /\ grouped_in = <<>>
    /\ ck = 0
    /\ page_hashes = <<>>
    /\ to_remove = {}
    /\ i = 0
    /\ j = 0
    /\ is_duplicate = FALSE
    /\ rerun = FALSE

NamesIdle ==
    /\ ocr_name = <<>>
    /\ db_name = <<>>
    /\ SUBSTRING_WORD_BOUNDARY_ONLY = TRUE
    /\ score = Zero

\* The configuration as shipped: both thresholds at their defaults.
ConfigDefault ==
    /\ fuzzy_threshold = FUZZY_NAME_THRESHOLD
    /\ ocr_threshold = OCR_DUPLICATE_THRESHOLD

NormalizeIdle ==
    /\ arg = <<>>
    /\ ret = <<>>

VerifyIdle ==
    /\ db_df = <<>>
    /\ db_index = <<>>
    /\ clients_sheet = <<>>
    /\ db_threshold = Zero
    /\ row_idx = 0
    /\ match = PyNone
    /\ verified = <<>>

(***************************************************************************)
(* deduplicate_pages                                                       *)
(***************************************************************************)

\* The signature stored for a page: computed only for a non-empty path of an
\* existing file.
PageHash(page) ==
    IF page.filepath # "" /\ page.filepath \in DOMAIN ImageFiles
    THEN compute_image_hash(page.filepath, IMAGE_HASH_SIZE)
    ELSE <<>>

\* Check 1: perceptual hash
HashDuplicate(hash_i, hash_j) ==
    /\ hash_i # <<>> /\ hash_j # <<>>
    /\ RatLT(hamming_distance(hash_i, hash_j), Rat(1, 10))

\* Faulty variant of TextDuplicate: the threshold itself does not count.
TextDuplicate_Strict(page_i, page_j, rf) ==
    /\ page_i.ocr_text # <<>> /\ page_j.ocr_text # <<>>
    /\ ~RatGE(ocr_threshold,
              text_similarity(page_i.ocr_text, page_j.ocr_text, rf))

\* Check 2: OCR text
TextDuplicate(page_i, page_j, rf) ==
    /\ page_i.ocr_text # <<>> /\ page_j.ocr_text # <<>>
    /\ RatGE(text_similarity(page_i.ocr_text, page_j.ocr_text, rf),
             ocr_threshold)

\* Check 3: page type and payload
DataDuplicate(page_i, page_j) ==
    /\ page_i.page_type = page_j.page_type
    /\ page_i.page_type # "unknown"
    /\ json_dumps(page_i.data) = json_dumps(page_j.data)

\* The verdict of the inner loop body for one pair
IsDuplicate(page_i, page_j, hash_i, hash_j, rf) ==
    IF HashDuplicate(hash_i, hash_j) THEN TRUE
    ELSE IF TextDuplicate(page_i, page_j, rf) THEN TRUE
    ELSE DataDuplicate(page_i, page_j)

\* Faulty variant of RemoveIdx: on equal lengths the earlier page goes.
RemoveIdx_TieDropsEarlier(page_i, page_j, ii, jj) ==
    IF Len(page_i.ocr_text) > Len(page_j.ocr_text) THEN jj ELSE ii

\* Faulty variant of RemoveIdx: the page with the longer text goes.
RemoveIdx_DropsLonger(page_i, page_j, ii, jj) ==
    IF Len(page_i.ocr_text) >= Len(page_j.ocr_text) THEN ii ELSE jj

\* remove_idx = j if len_i >= len_j else i
RemoveIdx(page_i, page_j, ii, jj) ==
    IF Len(page_i.ocr_text) >= Len(page_j.ocr_text) THEN jj ELSE ii

\* Faulty variant of KeepPages: the positions are counted one too high.
RECURSIVE KeepPages_OneBased(_, _, _)
KeepPages_OneBased(pages, removed, from) ==
    IF pages = <<>> THEN <<>>
    ELSE (IF (from + 1) \in removed THEN <<>> ELSE <<pages[1]>>)
         \o KeepPages_OneBased(Tail(pages), removed, from + 1)

\* [p for idx, p in enumerate(pages) if idx not in removed], idx from `from`
RECURSIVE KeepPages(_, _, _)
KeepPages(pages, removed, from) ==
    IF pages = <<>> THEN <<>>
    ELSE (IF from \in removed THEN <<>> ELSE <<pages[1]>>)
         \o KeepPages(Tail(pages), removed, from + 1)

\* Entry of deduplicate_pages(grouped_clients)
DeduplicateCall ==
    /\ pc = "grouped"
    /\ grouped_in' = clients
    /\ ck' = 1
    /\ pc' = "cluster"
    /\ UNCHANGED <<gvars, rapidfuzz, page_hashes, to_remove, i, j, is_duplicate, nvars, xvars>>

\* Faulty variant of SkipsCluster: the fallback cluster is not passed over.
SkipsCluster_SizeOnly(client) == Len(client.pages) <= 1

\* The fallback cluster and clusters of at most one page are passed over.
SkipsCluster(client) == client.key = "_unmatched" \/ Len(client.pages) <= 1

DedupSkipCluster ==
    /\ pc = "cluster"
    /\ ck <= Len(clients)
    /\ SkipsCluster(clients[ck])
    /\ ck' = ck + 1
    /\ UNCHANGED <<gvars, pc, rapidfuzz, grouped_in, page_hashes, to_remove, i, j,
                   is_duplicate, nvars, xvars>>

\* The signatures of the pages of the cluster are computed.
DedupEnterCluster ==
    /\ pc = "cluster"
    /\ ck <= Len(clients)
    /\ ~SkipsCluster(clients[ck])
    /\ page_hashes' = [n \in 1..Len(clients[ck].pages) |-> PageHash(clients[ck].pages[n])]
    /\ to_remove' = {}
    /\ i' = 0
    /\ pc' = "outer"
    /\ UNCHANGED <<gvars, rapidfuzz, grouped_in, ck, j, is_duplicate, nvars, xvars>>

\* for i in range(len(pages)): a marked i is skipped
OuterSkip ==
    /\ pc = "outer"
    /\ i < Len(clients[ck].pages)
    /\ i \in to_remove
    /\ i' = i + 1
    /\ UNCHANGED <<gvars, pc, rapidfuzz, grouped_in, ck, page_hashes, to_remove, j,
                   is_duplicate, nvars, xvars>>

OuterEnter ==
    /\ pc = "outer"
    /\ i < Len(clients[ck].pages)
    /\ i \notin to_remove
    /\ j' = i + 1
    /\ pc' = "inner"
    /\ UNCHANGED <<gvars, rapidfuzz, grouped_in, ck, page_hashes, to_remove, i,
                   is_duplicate, nvars, xvars>>

OuterExit ==
    /\ pc = "outer"
    /\ i >= Len(clients[ck].pages)
    /\ pc' = "apply"
    /\ UNCHANGED <<gvars, rapidfuzz, dvars, nvars, xvars>>

\* for j in range(i + 1, len(pages)): a marked j is skipped
InnerSkip ==
    /\ pc = "inner"
    /\ j < Len(clients[ck].pages)
    /\ j \in to_remove
    /\ j' = j + 1
    /\ UNCHANGED <<gvars, pc, rapidfuzz, grouped_in, ck, page_hashes, to_remove, i,
                   is_duplicate, nvars, xvars>>

\* The body of the inner loop: the three checks and the removal decision.
ComparePair ==
    /\ pc = "inner"
    /\ j < Len(clients[ck].pages)
    /\ j \notin to_remove
    /\ LET pages == clients[ck].pages
           dup == IsDuplicate(pages[i + 1], pages[j + 1],
                              page_hashes[i + 1], page_hashes[j + 1], rapidfuzz)
       IN  /\ is_duplicate' = dup
           /\ to_remove' = IF dup
                           THEN to_remove \cup {RemoveIdx(pages[i + 1], pages[j + 1], i, j)}
                           ELSE to_remove
    /\ j' = j + 1
    /\ UNCHANGED <<gvars, pc, rapidfuzz, grouped_in, ck, page_hashes, i, nvars, xvars>>

InnerExit ==
    /\ pc = "inner"
    /\ j >= Len(clients[ck].pages)
    /\ i' = i + 1
    /\ pc' = "outer"
    /\ UNCHANGED <<gvars, rapidfuzz, grouped_in, ck, page_hashes, to_remove, j,
                   is_duplicate, nvars, xvars>>

\* The marked pages are dropped from the cluster, all at once.
ApplyRemoval ==
    /\ pc = "apply"
    /\ clients' = IF to_remove = {} THEN clients
                  ELSE [clients EXCEPT ![ck].pages = KeepPages(@, to_remove, 0)]
    /\ ck' = ck + 1
    /\ pc' = "cluster"
    /\ UNCHANGED <<results, sorted_results, unmatched, remaining, idx, rapidfuzz,
                   grouped_in, page_hashes, to_remove, i, j, is_duplicate, nvars, xvars>>

DedupReturn ==
    /\ pc = "cluster"
    /\ ck > Len(clients)
    /\ pc' = "done"
    /\ UNCHANGED <<gvars, rapidfuzz, dvars, nvars, xvars>>

DedupNext ==
    \/ DeduplicateCall
    \/ DedupSkipCluster
    \/ DedupEnterCluster
    \/ OuterSkip
    \/ OuterEnter
    \/ OuterExit
    \/ InnerSkip
    \/ ComparePair
    \/ InnerExit
    \/ ApplyRemoval
    \/ DedupReturn

GroupNext ==
    \/ GroupByClientCall
    \/ GroupPage
    \/ ReturnNoUnmatched
    \/ PromoteUnmatched
    \/ StartRematch
    \/ RematchPage
    \/ AttachRemaining

Init == GroupInit /\ DedupIdle /\ NamesIdle /\ ConfigDefault /\ NormalizeIdle /\ VerifyIdle

Next == GroupNext \/ DedupNext

Spec == Init /\ [][Next]_vars

(***************************************************************************)
(* deduplicate_pages called on a dict of its own                           *)
(***************************************************************************)

MaxClusterPages == 3
MaxUnmatchedPages == 2

FrontReorderedPage ==
    Page("medical_card_front", FrontDataReordered, <<>>, "missing.jpg")

UnknownPhotoPage ==
    Page("unknown", PyDict(<< <<"some", PyStr(<<"x">>)>> >>), <<"c", "d">>, "a25.jpg")
UnknownBlankPage ==
    Page("unknown", PyDict(<< <<"some", PyStr(<<"x">>)>> >>), <<>>, "corrupt.jpg")

DedupUniverse ==
    {FrontPage, FrontReorderedPage, PhonePetrPage, UnknownPhotoPage, UnknownBlankPage}

Cluster(key, name, pages) ==
    [key |-> key, name |-> PyStr(name), phone |-> EmptyStr, iin |-> EmptyStr,
     pages |-> WithFileNames(pages)]

\* An optional "_unmatched" entry followed by the entry "client_1"
DedupInputs ==
    LET named == {<<Cluster("client_1", Petr, ps)>> :
                    ps \in UNION {[1..n -> DedupUniverse] : n \in 0..MaxClusterPages}}
        fallback == {<<>>} \cup
                    {<<Cluster("_unmatched", Undetermined, [n \in 1..m |-> UnrelatedPage])>> :
                        m \in 0..MaxUnmatchedPages}
    IN  {f \o c : f \in fallback, c \in named}

DedupInit ==
    /\ clients \in DedupInputs
    /\ rapidfuzz \in BOOLEAN
    /\ pc = "grouped"
    /\ results = <<>>
    /\ sorted_results = <<>>
    /\ unmatched = <<>>
    /\ remaining = <<>>
    /\ idx = 0
    /\ DedupIdle
    /\ NamesIdle
    /\ ConfigDefault
    /\ NormalizeIdle
    /\ VerifyIdle

SpecDedup == DedupInit /\ [][DedupNext]_vars

\* deduplicate_pages is called once more, on the dict it has returned.
DeduplicateAgain ==
    /\ pc = "done"
    /\ ~rerun
    /\ rerun' = TRUE
    /\ grouped_in' = clients
    /\ ck' = 1
    /\ page_hashes' = <<>>
    /\ to_remove' = {}
    /\ i' = 0
    /\ j' = 0
    /\ is_duplicate' = FALSE
    /\ pc' = "cluster"
    /\ UNCHANGED <<gvars, rapidfuzz, nvars, cvars, fvars, vvars, ivars>>

RerunNext == DedupNext \/ DeduplicateAgain

SpecRerun == DedupInit /\ [][RerunNext]_vars

(***************************************************************************)
(* verify_with_db.py: name normalisation and match_names                   *)
(***************************************************************************)

\* Position of the first "]" of s, 0 when there is none
FirstBracket(s) ==
    IF \E n \in 1..Len(s) : s[n] = "]"
    THEN SetMin({n \in 1..Len(s) : s[n] = "]"})
    ELSE 0

\* Faulty variant of vdb_normalize_name: the words are sorted.
vdb_normalize_name_Sorted(name) ==
    IF name = <<>> THEN <<>>
    ELSE LET low == Lower(Strip(name))
             cut == IF low # <<>> /\ low[1] = "[" /\ FirstBracket(low) > 0
                    THEN Strip(SubSeq(low, FirstBracket(low) + 1, Len(low)))
                    ELSE low
         IN  ReplaceChar(Join(SortWords(Split(cut))), "yo", "e")

\* verify_with_db.normalize_name of a str: strip, lower-case, drop a leading
\* "[id]", collapse whitespace, fold io to ie.  The words keep their order.
vdb_normalize_name(name) ==
    IF name = <<>> THEN <<>>
    ELSE LET low == Lower(Strip(name))
             cut == IF low # <<>> /\ low[1] = "[" /\ FirstBracket(low) > 0
                    THEN Strip(SubSeq(low, FirstBracket(low) + 1, Len(low)))
                    ELSE low
         IN  ReplaceChar(Join(Split(cut)), "yo", "e")

\* verify_with_db.fuzzy_match
vdb_fuzzy_match(s1, s2) ==
    IF s1 = <<>> \/ s2 = <<>> THEN Zero ELSE SequenceMatcherRatio(s1, s2)

WordSet(s) == {Split(s)[n] : n \in 1..Len(Split(s))}

\* Faulty variant of match_names: containment is tested on substrings whatever
\* the setting.
match_names_Substring(name1, name2, wbo) ==
    LET n1 == vdb_normalize_name(name1)
        n2 == vdb_normalize_name(name2)
        parts1 == Split(n1)
        parts2 == Split(n2)
    IN  IF n1 = <<>> \/ n2 = <<>> THEN Zero
        ELSE IF n1 = n2 THEN One
        ELSE IF IsSubstring(n1, n2) \/ IsSubstring(n2, n1) THEN Rat(19, 20)
        ELSE IF parts1 # <<>> /\ parts2 # <<>> /\ parts1[1] = parts2[1]
                /\ Len(parts1[1]) >= 3
        THEN RatMax(RatAdd(vdb_fuzzy_match(n1, n2), Rat(1, 50)), vdb_fuzzy_match(n1, n2))
        ELSE vdb_fuzzy_match(n1, n2)

\* Faulty variant of match_names: the shared-first-word rule is tried before
\* the containment rule.
match_names_AnchorFirst(name1, name2, wbo) ==
    LET n1 == vdb_normalize_name(name1)
        n2 == vdb_normalize_name(name2)
        parts1 == Split(n1)
        parts2 == Split(n2)
        contained == IF wbo
                     THEN WordSet(n1) \subseteq WordSet(n2) \/ WordSet(n2) \subseteq WordSet(n1)
                     ELSE IsSubstring(n1, n2) \/ IsSubstring(n2, n1)
    IN  IF n1 = <<>> \/ n2 = <<>> THEN Zero
        ELSE IF n1 = n2 THEN One
        ELSE IF parts1 # <<>> /\ parts2 # <<>> /\ parts1[1] = parts2[1]
                /\ Len(parts1[1]) >= 3
        THEN RatMax(RatAdd(vdb_fuzzy_match(n1, n2), Rat(1, 50)), vdb_fuzzy_match(n1, n2))
        ELSE IF contained THEN Rat(19, 20)
        ELSE vdb_fuzzy_match(n1, n2)

\* match_names(ocr_name, db_name); wbo is config.SUBSTRING_WORD_BOUNDARY_ONLY
match_names(name1, name2, wbo) ==
    LET n1 == vdb_normalize_name(name1)
        n2 == vdb_normalize_name(name2)
        words1 == WordSet(n1)
        words2 == WordSet(n2)
        parts1 == Split(n1)
        parts2 == Split(n2)
        contained == IF wbo
                     THEN words1 \subseteq words2 \/ words2 \subseteq words1
                     ELSE IsSubstring(n1, n2) \/ IsSubstring(n2, n1)
    IN  IF n1 = <<>> \/ n2 = <<>> THEN Zero
        ELSE IF n1 = n2 THEN One
        ELSE IF contained THEN Rat(19, 20)
        ELSE IF parts1 # <<>> /\ parts2 # <<>> /\ parts1[1] = parts2[1]
                /\ Len(parts1[1]) >= 3
        THEN RatMax(RatAdd(vdb_fuzzy_match(n1, n2), Rat(1, 50)), vdb_fuzzy_match(n1, n2))
        ELSE vdb_fuzzy_match(n1, n2)

Ivan == <<"I", "v", "a", "n">>
Ivanov == <<"I", "v", "a", "n", "o", "v">>
Ivanova == <<"I", "v", "a", "n", "o", "v", "a">>
IvanovIvan == <<"I", "v", "a", "n", "o", "v", " ", "I", "v", "a", "n">>
IvanovPadded == <<" ", "I", "v", "a", "n", "o", "v", " ", " ", "I", "v", "a", "n", " ">>
IvanovWithId == <<"[", "1", "2", "]", " ">> \o Ivanov
Pyotr == <<"P", "yo", "t", "r">>
Aleksandrovna ==
    <<"a", "l", "e", "k", "s", "a", "n", "d", "r", "o", "v", "n", "a">>
\* A full name of 26 characters, and the same with its last letter lost by OCR
FullName == Lower(Ivanova) \o <<" ", "a", "n", "n", "a", " ">> \o Aleksandrovna
FullNameCut == SubSeq(FullName, 1, Len(FullName) - 1)

NameUniverse ==
    {<<>>, Ivan, Ivanov, Ivanova, IvanovIvan, IvanovPadded, IvanovWithId,
     IvanovaAnna, AnnaIvanova, Petr, Pyotr, FullName, FullNameCut}

MatchNames ==
    /\ pc = "match_names"
    /\ score' = match_names(ocr_name, db_name, SUBSTRING_WORD_BOUNDARY_ONLY)
    /\ pc' = "matched"
    /\ UNCHANGED <<xvars, gvars, rapidfuzz, dvars, ocr_name, db_name,
                   SUBSTRING_WORD_BOUNDARY_ONLY>>

NamesInit ==
    /\ ocr_name \in NameUniverse
    /\ db_name \in NameUniverse
    /\ SUBSTRING_WORD_BOUNDARY_ONLY \in BOOLEAN
    /\ score = Zero
    /\ pc = "match_names"
    /\ rapidfuzz = FALSE
    /\ results = <<>>
    /\ sorted_results = <<>>
    /\ clients = <<>>
    /\ unmatched = <<>>
    /\ remaining = <<>>
    /\ idx = 0
    /\ DedupIdle
    /\ ConfigDefault
    /\ NormalizeIdle
    /\ VerifyIdle

NamesNext == MatchNames

SpecNames == NamesInit /\ [][NamesNext]_vars

(***************************************************************************)
(* The normalizers, each applied to a pair of values                       *)
(***************************************************************************)

IsDigit(c) == c \in {"0", "1", "2", "3", "4", "5", "6", "7", "8", "9"}

\* verify_with_db.normalize_phone of a cell value
normalize_phone(phone) ==
    IF ~Truthy(phone) \/ phone.t = "float" THEN <<>>
    ELSE LET digits == SelectSeq(Strip(PyToStr(phone)), IsDigit)
         IN  IF Len(digits) = 11 /\ digits[1] = "8" THEN <<"7">> \o Tail(digits)
             ELSE IF Len(digits) = 10 THEN <<"7">> \o digits
             ELSE digits

\* verify_with_db.normalize_name of a cell value: anything but a str gives ""
normalize_name_cell(name) ==
    IF name.t = "str" THEN vdb_normalize_name(name.v) ELSE <<>>

IvanovPetr == <<"I", "v", "a", "n", "o", "v", " ", "P", "e", "t", "r">>
PetrIvanov == <<"P", "e", "t", "r", " ", "I", "v", "a", "n", "o", "v">>
IdIvanov == <<"[", "1", "2", "]", " ", "i", "v", "a", "n", "o", "v">>
\* 10 digits, 11 digits, and the text pandas gives a numeric cell
Phone10 == <<"7", "0", "0", "0", "0", "0", "0", "0", "0", "0">>
Phone11 == <<"7">> \o Phone10
Phone11Float == Phone11 \o <<".", "0">>
Phone3 == <<"1", "0", "3">>
NaN == <<"n", "a", "n">>

NormalizeUniverse ==
    {PyStr(IvanovPetr), PyStr(PetrIvanov), PyStr(Lower(IvanovPetr)), PyStr(IvanovPadded),
     PyStr(IvanovWithId), PyStr(IdIvanov), PyStr(Pyotr), EmptyStr, PyNone,
     PyStr(PhoneMobile), PyStr(PhoneMobile8), PyStr(PhoneLandlineParen),
     PyStr(Phone10), PyStr(Phone3), PyInt(Phone10), PyInt(Phone11),
     PyFloat(Phone11Float), PyFloat(NaN)}

\* client_card_ocr.normalize_name on both values; it takes a str (or None)
NormalizeNameCall ==
    /\ pc = "normalize"
    /\ \A k \in 1..2 : arg[k].t \in {"str", "none"}
    /\ ret' = [k \in 1..2 |-> normalize_name(arg[k].v)]
    /\ pc' = "normalize_name"
    /\ UNCHANGED <<gvars, rapidfuzz, dvars, nvars, cvars, pvars, arg, vvars>>

\* verify_with_db.normalize_name on both values
VdbNormalizeNameCall ==
    /\ pc = "normalize"
    /\ ret' = [k \in 1..2 |-> normalize_name_cell(arg[k])]
    /\ pc' = "vdb_normalize_name"
    /\ UNCHANGED <<gvars, rapidfuzz, dvars, nvars, cvars, pvars, arg, vvars>>

\* verify_with_db.normalize_phone on both values
NormalizePhoneCall ==
    /\ pc = "normalize"
    /\ ret' = [k \in 1..2 |-> normalize_phone(arg[k])]
    /\ pc' = "normalize_phone"
    /\ UNCHANGED <<gvars, rapidfuzz, dvars, nvars, cvars, pvars, arg, vvars>>

GroupIdle ==
    /\ rapidfuzz = FALSE
    /\ results = <<>>
    /\ sorted_results = <<>>
    /\ clients = <<>>
    /\ unmatched = <<>>
    /\ remaining = <<>>
    /\ idx = 0

NormalizeInit ==
    /\ arg \in NormalizeUniverse \X NormalizeUniverse
    /\ ret = <<>>
    /\ pc = "normalize"
    /\ GroupIdle
    /\ DedupIdle
    /\ NamesIdle
    /\ ConfigDefault
    /\ VerifyIdle

NormalizeNext == NormalizeNameCall \/ VdbNormalizeNameCall \/ NormalizePhoneCall

SpecNormalize == NormalizeInit /\ [][NormalizeNext]_vars

(***************************************************************************)
(* verify_with_db.py: the registry index and the verification of clients   *)
(***************************************************************************)

\* pd.notna of a cell
NotNa(x) == ~(x.t = "none" \/ (x.t = "float" /\ x.v = NaN))

\* A row of the registry sheet as read.  date is a day number, 0 for a date
\* that could not be parsed; doctor is a cell.
DbRow(name, phone, date, doctor) ==
    [name |-> name, phone |-> phone, date |-> date, doctor |-> doctor]

\* load_db: the two normalised columns are added to every row
load_db(rows) ==
    [n \in 1..Len(rows) |->
        [name |-> rows[n].name, phone |-> rows[n].phone, date |-> rows[n].date,
         doctor |-> rows[n].doctor,
         name_norm |-> normalize_name_cell(rows[n].name),
         phone_norm |-> normalize_phone(rows[n].phone)]]

\* Position of the entry of an index whose key is name, 0 when there is none
IndexPos(index, name) ==
    IF \E k \in 1..Len(index) : index[k].key = name
    THEN CHOOSE k \in 1..Len(index) : index[k].key = name
    ELSE 0

\* build_db_client_index, first loop: one entry per non-empty name_norm, in
\* the order of first appearance; every row adds a visit to its entry
RECURSIVE CollectRows(_, _)
CollectRows(df, index) ==
    IF df = <<>> THEN index
    ELSE LET r == df[1]
             name == r.name_norm
             visit == [date |-> r.date, doctor |-> r.doctor]
             known == IF IndexPos(index, name) = 0
                      THEN Append(index, [key |-> name, name_orig |-> r.name,
                                          phone |-> r.phone_norm, visits |-> <<>>,
                                          doctors |-> {}])
                      ELSE index
             k == IndexPos(known, name)
             added == [known EXCEPT ![k].visits = Append(@, visit),
                                    ![k].doctors = IF NotNa(r.doctor) THEN @ \cup {r.doctor}
                                                   ELSE @]
         IN  IF name = <<>> THEN CollectRows(Tail(df), index)
             ELSE CollectRows(Tail(df), added)

\* Faulty variant of sorted_names: the keys in their order of insertion.
sorted_names_Unsorted(index) == [k \in 1..Len(index) |-> index[k].key]

\* sorted(index.keys())
sorted_names(index) == SortWords([k \in 1..Len(index) |-> index[k].key])

\* The visits of an entry sorted by date, equal dates keeping their order
RECURSIVE InsertByDate(_, _)
InsertByDate(v, vs) ==
    IF vs = <<>> THEN <<v>>
    ELSE IF v.date < vs[1].date THEN <<v>> \o vs
    ELSE <<vs[1]>> \o InsertByDate(v, Tail(vs))

RECURSIVE SortByDate(_)
SortByDate(vs) ==
    IF vs = <<>> THEN <<>>
    ELSE InsertByDate(vs[Len(vs)], SortByDate(SubSeq(vs, 1, Len(vs) - 1)))

\* f"DB-{db_num:04d}"
DigitChars == <<"0", "1", "2", "3", "4", "5", "6", "7", "8", "9">>
FormatDbId(db_num) ==
    <<"D", "B", "-">> \o
    [n \in 1..4 |-> DigitChars[((db_num \div (10 ^ (4 - n))) % 10) + 1]]

\* build_db_client_index
build_db_client_index(df) ==
    LET index == CollectRows(df, <<>>)
        names == sorted_names(index)
        db_num(name) == CHOOSE n \in 1..Len(names) : names[n] = name
    IN  [k \in 1..Len(index) |->
            [key |-> index[k].key,
             name_orig |-> index[k].name_orig,
             phone |-> index[k].phone,
             visits |-> SortByDate(index[k].visits),
             doctors |-> index[k].doctors,
             total_visits |-> Len(index[k].visits),
             db_id |-> FormatDbId(db_num(index[k].key))]]

\* min(a, b)
RatMin(a, b) == IF RatGE(a, b) THEN b ELSE a

\* find_best_match: the result before any entry was looked at
NoBest == [best_match |-> PyNone, best_score |-> Zero, phone_matched |-> FALSE]

\* Faulty variant of BestMatchStep: an entry that equals the best score so far
\* replaces the best match.
BestMatchStep_TieLast(best, data, ocr_name_, ocr_ph, threshold) ==
    LET name_score == match_names(ocr_name_, data.name_orig.v, SUBSTRING_WORD_BOUNDARY_ONLY)
        current_phone_match == ocr_ph # <<>> /\ data.phone # <<>> /\ ocr_ph = data.phone
        phone_bonus == IF current_phone_match THEN Rat(1, 5) ELSE Zero
        total_score == RatMin(One, RatAdd(name_score, phone_bonus))
    IN  IF RatGE(total_score, best.best_score) /\ RatGE(total_score, threshold)
        THEN [best_match |-> [t |-> "dict", v |-> <<>>,
                              db_id |-> data.db_id,
                              db_name |-> data.name_orig,
                              db_name_norm |-> data.key,
                              db_phone |-> data.phone,
                              score |-> total_score,
                              total_visits |-> data.total_visits,
                              doctors |-> data.doctors,
                              visits |-> data.visits,
                              phone_match |-> current_phone_match],
              best_score |-> total_score,
              phone_matched |-> current_phone_match]
        ELSE best

\* find_best_match: the body of the loop for one entry of the index
BestMatchStep(best, data, ocr_name_, ocr_ph, threshold) ==
    LET name_score == match_names(ocr_name_, data.name_orig.v, SUBSTRING_WORD_BOUNDARY_ONLY)
        current_phone_match == ocr_ph # <<>> /\ data.phone # <<>> /\ ocr_ph = data.phone
        phone_bonus == IF current_phone_match THEN Rat(1, 5) ELSE Zero
        total_score == RatMin(One, RatAdd(name_score, phone_bonus))
    IN  IF RatLT(best.best_score, total_score) /\ RatGE(total_score, threshold)
        THEN [best_match |-> [t |-> "dict", v |-> <<>>,
                              db_id |-> data.db_id,
                              db_name |-> data.name_orig,
                              db_name_norm |-> data.key,
                              db_phone |-> data.phone,
                              score |-> total_score,
                              total_visits |-> data.total_visits,
                              doctors |-> data.doctors,
                              visits |-> data.visits,
                              phone_match |-> current_phone_match],
              best_score |-> total_score,
              phone_matched |-> current_phone_match]
        ELSE best

RECURSIVE ScanIndex(_, _, _, _, _)
ScanIndex(index, best, ocr_name_, ocr_ph, threshold) ==
    IF index = <<>> THEN best
    ELSE ScanIndex(Tail(index), BestMatchStep(best, index[1], ocr_name_, ocr_ph, threshold),
                   ocr_name_, ocr_ph, threshold)

\* find_best_match(ocr_name, ocr_phone, db_index, threshold): the match, or None
find_best_match(ocr_name_, ocr_phone, index, threshold) ==
    ScanIndex(index, NoBest, ocr_name_, normalize_phone(PyStr(ocr_phone)), threshold).best_match

\* verify_clients: the text taken from a cell of the client sheet
CellText(x) ==
    LET val == IF NotNa(x) THEN PyToStr(x) ELSE <<>>
    IN  IF val # NaN THEN val ELSE <<>>

STATUS_KARTOTEKA_FOUND == "Naiden v OCR"
STATUS_DB_FOUND == "Naiden v BD"
STATUS_DB_MAYBE == "Vozmozhnoe sovpadenie v BD"
STATUS_DB_NOT_FOUND == "Net v BD (novyi dlya kartoteki)"
MIN_FIO_WORDS_FOR_CONFIDENT_MATCH == 2

\* Faulty variant of status_bd: a phone match alone is not enough, the name
\* must be confident as well.
status_bd_PhoneAndName(ocr_name_, m) ==
    IF m # PyNone
    THEN IF m.phone_match /\ Len(Split(Strip(ocr_name_))) >= 2 /\ RatGE(m.score, Rat(17, 20))
         THEN "Naiden v BD"
         ELSE "Vozmozhnoe sovpadenie v BD"
    ELSE "Net v BD (novyi dlya kartoteki)"

\* Faulty variant of status_bd: the number of words of the name is not looked
\* at.
status_bd_AnyLength(ocr_name_, m) ==
    IF m # PyNone
    THEN IF m.phone_match \/ RatGE(m.score, Rat(17, 20))
         THEN "Naiden v BD"
         ELSE "Vozmozhnoe sovpadenie v BD"
    ELSE "Net v BD (novyi dlya kartoteki)"

\* The status of a client given what find_best_match returned
status_bd(ocr_name_, m) ==
    IF m # PyNone
    THEN LET fio_words == Len(Split(Strip(ocr_name_)))
         IN  IF m.phone_match
                \/ (fio_words >= MIN_FIO_WORDS_FOR_CONFIDENT_MATCH /\ RatGE(m.score, Rat(17, 20)))
             THEN STATUS_DB_FOUND
             ELSE STATUS_DB_MAYBE
    ELSE STATUS_DB_NOT_FOUND

\* round(x * 100, 1), in tenths; a half goes to the even tenth
RoundPercent(x) ==
    LET n == x[1] * 1000
        q == n \div x[2]
        r == n % x[2]
    IN  IF 2 * r > x[2] \/ (2 * r = x[2] /\ q % 2 = 1) THEN Rat(q + 1, 10) ELSE Rat(q, 10)

\* The row of the report for one client
ResultRow(ocr_name_, ocr_phone, m) ==
    [ocr_fio |-> ocr_name_,
     ocr_phone |-> ocr_phone,
     status_kartoteki |-> STATUS_KARTOTEKA_FOUND,
     status_bd |-> status_bd(ocr_name_, m),
     status |-> status_bd(ocr_name_, m),
     bd_id |-> IF m # PyNone THEN m.db_id ELSE <<>>,
     bd_fio |-> IF m # PyNone THEN m.db_name ELSE EmptyStr,
     bd_phone |-> IF m # PyNone THEN m.db_phone ELSE <<>>,
     match_percent |-> IF m # PyNone THEN RoundPercent(m.score) ELSE Zero,
     visits_in_bd |-> IF m # PyNone THEN m.total_visits ELSE 0,
     doctors_in_bd |-> IF m # PyNone THEN m.doctors ELSE {}]

\* A row of the client sheet: the cells under its name and phone columns
ClientRow(fio, phone) == [fio |-> fio, phone |-> phone]

RowIvanov == DbRow(PyStr(Ivanov), PyNone, 1, PyStr(<<"A">>))
RowIvanovIvan == DbRow(PyStr(IvanovIvan), PyStr(PhoneMobile), 2, PyStr(<<"b">>))
RowIvanovId == DbRow(PyStr(IvanovWithId), PyFloat(Phone11Float), 0, PyNone)
RowIvanova == DbRow(PyStr(Ivanova), PyStr(PhoneMobile8), 2, PyStr(<<"A">>))
RowNoName == DbRow(PyFloat(NaN), PyInt(Phone10), 1, PyStr(<<"A">>))

MaxDbRows == 2
MaxClientRows == 2

RECURSIVE SeqsUpTo(_, _)
SeqsUpTo(S, n) ==
    IF n = 0 THEN {<<>>}
    ELSE SeqsUpTo(S, n - 1) \cup {Append(q, x) : q \in {r \in SeqsUpTo(S, n - 1) : Len(r) = n - 1}, x \in S}

DbRowUniverse == {RowIvanov, RowIvanovIvan, RowIvanovId, RowIvanova, RowNoName}
ClientRowUniverse ==
    {ClientRow(PyStr(Ivanov), PyStr(Phone11)),
     ClientRow(PyStr(Ivanov), PyNone),
     ClientRow(PyStr(IvanovIvan), PyFloat(NaN)),
     ClientRow(PyStr(IvanovaAnna), PyInt(Phone11)),
     ClientRow(PyStr(Pyotr), PyStr(Phone3)),
     ClientRow(PyNone, PyStr(Phone11))}
ThresholdUniverse == {Rat(0 - 1, 2), Zero, Rat(7, 10), Rat(3, 2)}

\* load_db
LoadDb ==
    /\ pc = "load_db"
    /\ db_df' = load_db(db_df)
    /\ pc' = "build_db_client_index"
    /\ UNCHANGED <<gvars, rapidfuzz, dvars, nvars, cvars, pvars, fvars, db_index, clients_sheet,
                   db_threshold, row_idx, match, verified>>

\* build_db_client_index
BuildDbClientIndex ==
    /\ pc = "build_db_client_index"
    /\ db_index' = build_db_client_index(db_df)
    /\ pc' = "verify_clients"
    /\ UNCHANGED <<gvars, rapidfuzz, dvars, nvars, cvars, pvars, fvars, db_df, clients_sheet,
                   db_threshold, row_idx, match, verified>>

\* verify_clients up to its loop: an empty sheet ends the call at once
VerifyClientsCall ==
    /\ pc = "verify_clients"
    /\ verified' = <<>>
    /\ IF Len(clients_sheet) = 0
       THEN pc' = "verified" /\ UNCHANGED row_idx
       ELSE pc' = "verify_row" /\ row_idx' = 1
    /\ UNCHANGED <<gvars, rapidfuzz, dvars, nvars, cvars, pvars, fvars, db_df, db_index,
                   clients_sheet, db_threshold, match>>

\* verify_clients, loop body for a row without a name: continue
VerifySkipRow ==
    /\ pc = "verify_row"
    /\ row_idx <= Len(clients_sheet)
    /\ CellText(clients_sheet[row_idx].fio) = <<>>
    /\ row_idx' = row_idx + 1
    /\ UNCHANGED <<gvars, pc, rapidfuzz, dvars, nvars, cvars, pvars, fvars, db_df, db_index,
                   clients_sheet, db_threshold, match, verified>>

\* verify_clients, loop body for a row with a name
VerifyRow ==
    /\ pc = "verify_row"
    /\ row_idx <= Len(clients_sheet)
    /\ CellText(clients_sheet[row_idx].fio) # <<>>
    /\ LET name == CellText(clients_sheet[row_idx].fio)
           phone == CellText(clients_sheet[row_idx].phone)
           m == find_best_match(name, phone, db_index, db_threshold)
       IN  /\ match' = m
           /\ verified' = Append(verified, ResultRow(name, phone, m))
    /\ row_idx' = row_idx + 1
    /\ UNCHANGED <<gvars, pc, rapidfuzz, dvars, nvars, cvars, pvars, fvars, db_df, db_index,
                   clients_sheet, db_threshold>>

\* verify_clients: the loop is over, the report is returned
VerifyReturn ==
    /\ pc = "verify_row"
    /\ row_idx > Len(clients_sheet)
    /\ pc' = "verified"
    /\ UNCHANGED <<gvars, rapidfuzz, dvars, nvars, cvars, pvars, fvars, vvars>>

VerifyInit ==
    /\ db_df \in SeqsUpTo(DbRowUniverse, MaxDbRows)
    /\ clients_sheet \in SeqsUpTo(ClientRowUniverse, MaxClientRows)
    /\ db_threshold \in ThresholdUniverse
    /\ db_index = <<>>
    /\ row_idx = 0
    /\ match = PyNone
    /\ verified = <<>>
    /\ pc = "load_db"
    /\ GroupIdle
    /\ DedupIdle
    /\ NamesIdle
    /\ ConfigDefault
    /\ NormalizeIdle

VerifyNext ==
    \/ LoadDb
    \/ BuildDbClientIndex
    \/ VerifyClientsCall
    \/ VerifySkipRow
    \/ VerifyRow
    \/ VerifyReturn

SpecVerify == VerifyInit /\ [][VerifyNext]_vars

(***************************************************************************)
(* group_by_client on payloads of any shape                                *)
(***************************************************************************)

\* Pages whose payload has a null, a number or a list where an identifier is
\* expected, an empty payload, and a payload that is no dict
NullPhonePage ==
    Page("medical_card_front",
         PyDict(<< <<"fio", PyStr(Petr)>>, <<"phone", PyNone>> >>), <<>>, "")
IntIinPage ==
    Page("procedure_sheet",
         PyDict(<< <<"fio", PyStr(IvanovaAnna)>>, <<"iin", PyInt(<<"1", "2">>)>> >>), <<>>, "")
ListPhonePage ==
    Page("products_list",
         PyDict(<< <<"phone", PyList(<<PyStr(PhoneMobile)>>)>> >>), <<>>, "")
IntFioPage ==
    Page("medical_card_inner", PyDict(<< <<"fio", PyInt(<<"5">>)>> >>), <<>>, "")
EmptyPayloadPage == Page("medical_card_front", PyDict(<<>>), <<>>, "")
NonDictPage == Page("unknown", PyStr(<<"x">>), <<>>, "")

PayloadUniverse ==
    {FrontPage, ProcedurePage, UnrelatedPage, NullPhonePage, IntIinPage,
     ListPhonePage, IntFioPage, EmptyPayloadPage, NonDictPage}

PayloadInit ==
    /\ results \in {WithFileNames(b) : b \in UNION {[1..n -> PayloadUniverse] : n \in 0..MaxPages}}
    /\ rapidfuzz \in BOOLEAN
    /\ pc = "start"
    /\ sorted_results = <<>>
    /\ clients = <<>>
    /\ unmatched = <<>>
    /\ remaining = <<>>
    /\ idx = 0
    /\ DedupIdle
    /\ NamesIdle
    /\ ConfigDefault
    /\ NormalizeIdle
    /\ VerifyIdle

SpecPayloads == PayloadInit /\ [][GroupNext]_vars

(***************************************************************************)
(* Calls outside the contract: thresholds out of range, the fallback       *)
(* cluster handed to deduplicate_pages                                     *)
(***************************************************************************)

OutOfRange == {Rat(0 - 1, 2), Rat(3, 2)}

ContractPages == {FrontPage, ProcedurePage, UnrelatedPage, IinPetrPage}

\* group_by_client and then deduplicate_pages under a configuration whose
\* thresholds are out of range
ContractPipelineInit ==
    /\ results \in {WithFileNames(b) : b \in UNION {[1..n -> ContractPages] : n \in 0..MaxPages}}
    /\ rapidfuzz = FALSE
    /\ pc = "start"
    /\ sorted_results = <<>>
    /\ clients = <<>>
    /\ unmatched = <<>>
    /\ remaining = <<>>
    /\ idx = 0
    /\ fuzzy_threshold \in OutOfRange
    /\ ocr_threshold \in OutOfRange
    /\ DedupIdle /\ NamesIdle /\ NormalizeIdle /\ VerifyIdle

\* deduplicate_pages on a dict that holds the fallback cluster
ContractDedupInit ==
    /\ clients \in {d \in DedupInputs : \E k \in 1..Len(d) : d[k].key = "_unmatched"}
    /\ rapidfuzz = FALSE
    /\ pc = "grouped"
    /\ results = <<>>
    /\ sorted_results = <<>>
    /\ unmatched = <<>>
    /\ remaining = <<>>
    /\ idx = 0
    /\ ConfigDefault
    /\ DedupIdle /\ NamesIdle /\ NormalizeIdle /\ VerifyIdle

\* verify_clients, and through it find_best_match, with a threshold out of
\* range
ContractVerifyInit ==
    /\ db_df \in SeqsUpTo(DbRowUniverse, MaxDbRows)
    /\ clients_sheet \in SeqsUpTo(ClientRowUniverse, 1)
    /\ db_threshold \in OutOfRange
    /\ db_index = <<>>
    /\ row_idx = 0
    /\ match = PyNone
    /\ verified = <<>>
    /\ pc = "load_db"
    /\ GroupIdle
    /\ ConfigDefault
    /\ DedupIdle /\ NamesIdle /\ NormalizeIdle

ContractInit == ContractPipelineInit \/ ContractDedupInit \/ ContractVerifyInit

ContractNext == GroupNext \/ DedupNext \/ VerifyNext

SpecContract == ContractInit /\ [][ContractNext]_vars

(***************************************************************************)
(* collect_name_phone_iin applied to a payload                             *)
(***************************************************************************)

MaxPayloadItems == 2

\* What a field of a payload may hold
AliasValues == {PyStr(Pyotr), PyStr(IvanovPadded), EmptyStr, PyNone, PyInt(<<"7">>)}

\* The items a payload is made of: aliases of the three identifiers, at the
\* root and one level down
AliasItems ==
    UNION {{<<"ru:patsient", PyDict(<< <<"ru:fio", v>> >>)>>,
            <<"fio", v>>,
            <<"client_name", v>>,
            <<"phone", v>>,
            <<"contact", v>>,
            <<"iin", v>>,
            <<"patient_info", PyDict(<< <<"iin", v>> >>)>>} : v \in AliasValues}

\* The payloads: dicts of up to MaxPayloadItems items with distinct keys
AliasPayloads ==
    {PyDict(items) : items \in {q \in SeqsUpTo(AliasItems, MaxPayloadItems) :
                                   \A m, n \in 1..Len(q) : m # n => q[m][1] # q[n][1]}}

\* enriched = collect_name_phone_iin(data)
CollectCall ==
    /\ pc = "collect"
    /\ ret' = <<collect_name_phone_iin(arg[1])>>
    /\ pc' = "collected"
    /\ UNCHANGED <<gvars, rapidfuzz, dvars, nvars, cvars, pvars, arg, vvars>>

CollectInit ==
    /\ arg \in {<<d>> : d \in AliasPayloads}
    /\ ret = <<>>
    /\ pc = "collect"
    /\ GroupIdle
    /\ DedupIdle
    /\ NamesIdle
    /\ ConfigDefault
    /\ VerifyIdle

SpecCollect == CollectInit /\ [][CollectCall]_vars

(***************************************************************************)
(* collect_ocr_texts                                                       *)
(***************************************************************************)

max_length == 32000

\* truncate_text(text, max_length)
truncate_text(text) ==
    IF text = <<>> THEN <<>>
    ELSE IF Len(text) <= max_length THEN text
    ELSE SubSeq(text, 1, max_length)
         \o <<".", ".", ".", " ", "[", "O", "B", "R", "E", "Z", "A", "N", "O", "]">>

\* "\n\n---\n\n".join(text_list)
RECURSIVE JoinTexts(_)
JoinTexts(text_list) ==
    IF text_list = <<>> THEN <<>>
    ELSE IF Len(text_list) = 1 THEN text_list[1]
    ELSE text_list[1] \o <<"\n", "\n", "-", "-", "-", "\n", "\n">> \o JoinTexts(Tail(text_list))

\* The keys of texts, in the order of the dict
TextKeys == <<"front", "inner", "procedures", "products", "complex", "botox">>

\* The key under which the loop files a page of the given type
TextKeyOf(page_type) ==
    CASE page_type = "medical_card_front" -> "front"
      [] page_type = "medical_card_inner" -> "inner"
      [] page_type = "procedure_sheet" -> "procedures"
      [] page_type = "products_list" -> "products"
      [] page_type = "complex_package" -> "complex"
      [] page_type = "botox_record" -> "botox"
      [] OTHER -> "procedures"

\* texts[key] after the loop over the pages: pages without text are skipped
RECURSIVE TextList(_, _)
TextList(pages, key) ==
    IF pages = <<>> THEN <<>>
    ELSE (IF pages[1].ocr_text # <<>> /\ TextKeyOf(pages[1].page_type) = key
          THEN <<pages[1].ocr_text>> ELSE <<>>)
         \o TextList(Tail(pages), key)

\* if result["full"]: a column that is empty takes result["full"]
FillEmpty(column, full) ==
    IF full # <<>> /\ column = <<>> THEN full ELSE column

\* collect_ocr_texts(pages); the pages carry no tables_md / tables_csv
collect_ocr_texts(pages) ==
    LET texts == [key \in {TextKeys[n] : n \in 1..Len(TextKeys)} |-> TextList(pages, key)]
        joined == [key \in DOMAIN texts |-> truncate_text(JoinTexts(texts[key]))]
        all_texts == texts["front"] \o texts["inner"] \o texts["procedures"]
                     \o texts["products"] \o texts["complex"] \o texts["botox"]
        full == truncate_text(JoinTexts(all_texts))
        fallback == IF (\A key \in DOMAIN texts : texts[key] = <<>>) /\ full # <<>>
                    THEN [joined EXCEPT !["procedures"] = full]
                    ELSE joined
    IN  [front      |-> FillEmpty(fallback["front"], full),
         inner      |-> FillEmpty(fallback["inner"], full),
         procedures |-> FillEmpty(fallback["procedures"], full),
         products   |-> FillEmpty(fallback["products"], full),
         complex    |-> FillEmpty(fallback["complex"], full),
         botox      |-> FillEmpty(fallback["botox"], full),
         full       |-> full,
         tables_md  |-> <<>>,
         tables_csv |-> <<>>]

MaxTextPages == 3

PageTypes ==
    {"medical_card_front", "medical_card_inner", "procedure_sheet", "products_list",
     "complex_package", "botox_record", "unknown"}

\* The text of the page at position n, when it has one: the digit of n
TextOfPosition(n) == <<DigitChars[n + 1]>>

\* The page lists of a client: each page has a category and either no text
\* or the text of its position
TextPageLists ==
    UNION {{[n \in 1..len |-> Page(types[n], PyDict(<<>>),
                                   IF n \in with_text THEN TextOfPosition(n) ELSE <<>>, "")] :
               types \in [1..len -> PageTypes], with_text \in SUBSET (1..len)} :
           len \in 0..MaxTextPages}

\* result = collect_ocr_texts(pages)
CollectOcrTextsCall ==
    /\ pc = "collect_ocr_texts"
    /\ ret' = <<collect_ocr_texts(arg[1])>>
    /\ pc' = "collected_texts"
    /\ UNCHANGED <<gvars, rapidfuzz, dvars, nvars, cvars, pvars, arg, vvars>>

CollectTextsInit ==
    /\ arg \in {<<pages>> : pages \in TextPageLists}
    /\ ret = <<>>
    /\ pc = "collect_ocr_texts"
    /\ GroupIdle
    /\ DedupIdle
    /\ NamesIdle
    /\ ConfigDefault
    /\ VerifyIdle

SpecCollectTexts == CollectTextsInit /\ [][CollectOcrTextsCall]_vars

(***************************************************************************)
(* process_all_images: the resumable run over the input folder             *)
(***************************************************************************)

\* config.MAX_RETRIES
MAX_RETRIES == 1

\* Pipeline runs followed, and the images the input folder may hold
MaxRuns == 3
ImageNames == <<"a.jpg", "b.jpg", "c.jpg">>

\* get_image_files: sorted(os.listdir(folder)) of a folder holding files
get_image_files(files) == SelectSeq(ImageNames, LAMBDA f : f \in files)

\* A result of process_all_images: origin tells a result read from a cache
\* file, a freshly parsed page and an error page apart
PageResult(filename, origin) == [filename |-> filename, origin |-> origin]

\* load_from_cache for each path of a list, the misses left out
\* (`if cached: results.append(cached)`).  The cache file name is the md5 of
\* the path; the folder being fixed, it is keyed here by the file name.
RECURSIVE CachedResults(_, _)
CachedResults(paths, cache) ==
    IF paths = <<>> THEN <<>>
    ELSE (IF paths[1] \in cache THEN <<PageResult(paths[1], "cache")>> ELSE <<>>)
         \o CachedResults(Tail(paths), cache)

ImagesUntouched == UNCHANGED <<gvars, rapidfuzz, dvars, nvars, cvars, fvars, vvars, rerun>>

\* Lines 850-878: list the folder, exit when it is empty, load the registry
\* and split the images into already processed and new
ListAndFilter ==
    /\ pc = "process_all_images"
    /\ runs < MaxRuns
    /\ runs' = runs + 1
    /\ \E files \in SUBSET {ImageNames[n] : n \in 1..Len(ImageNames)} :
          LET listing == get_image_files(files)
              already_done == registry_file
              fresh == SelectSeq(listing, LAMBDA f : f \notin already_done)
          IN  /\ image_files' = listing
              /\ registry' = registry_file
              /\ new_files' = fresh
              /\ pc' = IF listing = <<>> THEN "exited"
                       ELSE IF fresh = <<>> THEN "no_new_files"
                       ELSE "preload"
    /\ page_results' = <<>>
    /\ file_idx' = 0
    /\ attempt' = 0
    /\ UNCHANGED <<registry_file, cache_files>>
    /\ ImagesUntouched

\* Lines 880-888: nothing new, return what the cache holds
ReturnCached ==
    /\ pc = "no_new_files"
    /\ page_results' = CachedResults(image_files, cache_files)
    /\ pc' = "returned"
    /\ UNCHANGED <<image_files, registry_file, cache_files, registry, new_files,
                   file_idx, attempt, runs>>
    /\ ImagesUntouched

\* Lines 893-902: the cached results of the images already in the registry
PreloadProcessed ==
    /\ pc = "preload"
    /\ page_results' = CachedResults(SelectSeq(image_files, LAMBDA f : f \in registry_file),
                                     cache_files)
    /\ file_idx' = 1
    /\ pc' = "new_file"
    /\ UNCHANGED <<image_files, registry_file, cache_files, registry, new_files,
                   attempt, runs>>
    /\ ImagesUntouched

\* Lines 911-916: a new image that has a cache file
TakeFromCache ==
    /\ pc = "new_file"
    /\ file_idx <= Len(new_files)
    /\ new_files[file_idx] \in cache_files
    /\ page_results' = Append(page_results, PageResult(new_files[file_idx], "cache"))
    /\ registry' = registry \cup {new_files[file_idx]}
    /\ file_idx' = file_idx + 1
    /\ UNCHANGED <<image_files, registry_file, cache_files, new_files, attempt, runs, pc>>
    /\ ImagesUntouched

\* Line 919: a new image without a cache file enters the retry loop
StartAttempts ==
    /\ pc = "new_file"
    /\ file_idx <= Len(new_files)
    /\ new_files[file_idx] \notin cache_files
    /\ attempt' = 0
    /\ pc' = "attempt"
    /\ UNCHANGED <<image_files, registry_file, cache_files, registry, new_files,
                   page_results, file_idx, runs>>
    /\ ImagesUntouched

\* Lines 920-953: recognition and extraction succeed
AttemptSucceeds ==
    /\ pc = "attempt"
    /\ cache_files' = cache_files \cup {new_files[file_idx]}
    /\ page_results' = Append(page_results, PageResult(new_files[file_idx], "parsed"))
    /\ registry' = registry \cup {new_files[file_idx]}
    /\ file_idx' = file_idx + 1
    /\ pc' = "new_file"
    /\ UNCHANGED <<image_files, registry_file, new_files, attempt, runs>>
    /\ ImagesUntouched

\* Lines 955-960: an attempt raises and another one is left
AttemptFails ==
    /\ pc = "attempt"
    /\ attempt < MAX_RETRIES
    /\ attempt' = attempt + 1
    /\ UNCHANGED <<image_files, registry_file, cache_files, registry, new_files,
                   page_results, file_idx, runs, pc>>
    /\ ImagesUntouched

\* Lines 961-968: the last attempt raises, an error page is returned for the
\* image; it is neither cached nor registered
GiveUp ==
    /\ pc = "attempt"
    /\ attempt = MAX_RETRIES
    /\ page_results' = Append(page_results, PageResult(new_files[file_idx], "error"))
    /\ file_idx' = file_idx + 1
    /\ pc' = "new_file"
    /\ UNCHANGED <<image_files, registry_file, cache_files, registry, new_files,
                   attempt, runs>>
    /\ ImagesUntouched

\* Lines 971-980: save_registry(registry); return results
SaveAndReturn ==
    /\ pc = "new_file"
    /\ file_idx > Len(new_files)
    /\ registry_file' = registry
    /\ pc' = "returned"
    /\ UNCHANGED <<image_files, cache_files, registry, new_files, page_results,
                   file_idx, attempt, runs>>
    /\ ImagesUntouched

\* The pipeline is started again in its incremental mode
RunAgain ==
    /\ pc \in {"returned", "exited"}
    /\ runs < MaxRuns
    /\ pc' = "process_all_images"
    /\ UNCHANGED ivars
    /\ ImagesUntouched

\* The pipeline is started again with --force: the registry file is removed
\* unless os.remove raises (a warning is logged), then every cache file is
\* removed unless os.remove raises (the error is passed over)
ForceReset ==
    /\ pc \in {"returned", "exited"}
    /\ runs < MaxRuns
    /\ \E registry_removed \in BOOLEAN, kept \in SUBSET cache_files :
          /\ registry_file' = IF registry_removed THEN {} ELSE registry_file
          /\ cache_files' = kept
    /\ pc' = "process_all_images"
    /\ UNCHANGED <<image_files, registry, new_files, page_results, file_idx, attempt, runs>>
    /\ ImagesUntouched

ImagesInit ==
    /\ pc = "process_all_images"
    /\ arg = <<>>
    /\ ret = <<>>
    /\ GroupIdle
    /\ DedupIdle
    /\ NamesIdle
    /\ ConfigDefault
    /\ VerifyIdle

ImagesNext ==
    \/ ListAndFilter
    \/ ReturnCached
    \/ PreloadProcessed
    \/ TakeFromCache
    \/ StartAttempts
    \/ AttemptSucceeds
    \/ AttemptFails
    \/ GiveUp
    \/ SaveAndReturn
    \/ RunAgain
    \/ ForceReset

SpecImages == ImagesInit /\ [][ImagesNext]_vars

(***************************************************************************)
(* Properties                                                              *)
(***************************************************************************)

\* The positions <<cluster, page>> of a dict of clusters
Slots(cl) == UNION {{<<k, m>> : m \in 1..Len(cl[k].pages)} : k \in 1..Len(cl)}

\* C1: when group_by_client returns, the clusters hold as many pages as the
\* batch and every page of the batch is in one of them: with the count, each
\* page is in exactly one place, none is dropped and none is duplicated.
C1_PagesConserved ==
    pc = "grouped" =>
        /\ Cardinality(Slots(clients)) = Len(results)
        /\ \A n \in 1..Len(results) :
              \E s \in Slots(clients) : clients[s[1]].pages[s[2]] = results[n]

\* A returned grouping of two clusters to which a page set aside in the main
\* loop (an error page or a page without identifiers) was attached.
C1_Witness ==
    /\ pc = "grouped"
    /\ Len(clients) >= 2
    /\ remaining # <<>>
    /\ \E n \in 1..Len(results) :
          results[n].page_type = "error"
          \/ HasNoIdentifiers(extract_identifiers(results[n]))

\* The national id of a page or cluster without its spaces
IinKey(x) == IF x.t = "str" THEN RemoveChars(x.v, {" "}) ELSE <<>>

SharesIin(page, cl) ==
    /\ IinKey(extract_identifiers(page).iin) # <<>>
    /\ \E k \in 1..Len(cl) : IinKey(cl[k].iin) = IinKey(extract_identifiers(page).iin)

\* cl2 is cl with the page appended to one of its clusters: no cluster is new
JoinsExisting(page, cl, cl2) ==
    /\ Len(cl2) = Len(cl)
    /\ \E k \in 1..Len(cl) :
          /\ cl2[k].pages = Append(cl[k].pages, page)
          /\ \A m \in 1..Len(cl) : m # k => cl2[m] = cl[m]

\* C2: whenever group_by_client matches a page (a page of the main loop that
\* is not an error page, or a page of the second pass) whose non-empty
\* national id equals, spaces removed, the one of an existing cluster, the
\* page is appended to an existing cluster and no cluster is created.
C2_IinForcesMerge ==
    [][/\ (/\ pc = "group"
           /\ idx <= Len(sorted_results)
           /\ sorted_results[idx].page_type # "error"
           /\ SharesIin(sorted_results[idx], clients))
          => JoinsExisting(sorted_results[idx], clients, clients')
       /\ (/\ pc = "rematch"
           /\ idx <= Len(unmatched)
           /\ SharesIin(unmatched[idx], clients))
          => JoinsExisting(unmatched[idx], clients, clients')]_vars

\* A cluster took in a page by its national id alone: the page has no phone
\* and its name has similarity 0 to the name of every cluster.
C2_Witness ==
    /\ pc \in {"group", "rematch"}
    /\ \E k \in 1..Len(clients) : \E m \in 2..Len(clients[k].pages) :
          LET ids == extract_identifiers(clients[k].pages[m])
          IN  /\ Truthy(ids.fio)
              /\ ~Truthy(ids.phone)
              /\ IinKey(ids.iin) # <<>>
              /\ IinKey(ids.iin) = IinKey(clients[k].iin)
              /\ \A c \in 1..Len(clients) :
                    RatEQ(fuzzy_match(ids.fio.v, clients[c].name.v, rapidfuzz), Zero)

Digits(s) == RemoveChars(s, {c \in {CodePoints[n] : n \in 1..Len(CodePoints)} :
                                Ord(c) < Ord("0") \/ Ord(c) > Ord("9")})

PhoneDigits(x) == IF x.t = "str" THEN Digits(x.v) ELSE <<>>

SharesLast7Digits(page, cl) ==
    /\ Len(PhoneDigits(extract_identifiers(page).phone)) >= 7
    /\ \E k \in 1..Len(cl) :
          /\ Len(PhoneDigits(cl[k].phone)) >= 7
          /\ Last7(PhoneDigits(cl[k].phone))
                = Last7(PhoneDigits(extract_identifiers(page).phone))

\* C3: whenever group_by_client matches a page whose phone has at least 7
\* digits (hence at least 7 characters), the last 7 of which equal the last 7
\* digits of the phone of an existing cluster, the page is appended to an
\* existing cluster and no cluster is created.
C3_PhoneForcesMerge ==
    [][/\ (/\ pc = "group"
           /\ idx <= Len(sorted_results)
           /\ sorted_results[idx].page_type # "error"
           /\ SharesLast7Digits(sorted_results[idx], clients))
          => JoinsExisting(sorted_results[idx], clients, clients')
       /\ (/\ pc = "rematch"
           /\ idx <= Len(unmatched)
           /\ SharesLast7Digits(unmatched[idx], clients))
          => JoinsExisting(unmatched[idx], clients, clients')]_vars

PageNames(pages) == [n \in 1..Len(pages) |-> pages[n].filename]

IsScenario == results = WithFileNames(ScenarioBatch)

Comparing == pc = "inner" /\ j < Len(clients[ck].pages) /\ j \notin to_remove

TextLen(n) == Len(clients[ck].pages[n + 1].ocr_text)

\* C5: a comparison that finds the pair (i, j) to be duplicates marks exactly
\* one page: the one with the shorter ocr_text, and j when the lengths are
\* equal; a comparison that finds no duplicate marks nothing.
C5_ShorterTextRemoved ==
    [][Comparing =>
          to_remove' = IF ~is_duplicate' THEN to_remove
                       ELSE IF TextLen(i) < TextLen(j) THEN to_remove \cup {i}
                       ELSE to_remove \cup {j}]_vars

\* The first page was just found a duplicate of a later page with a text of
\* the same length: the later page is marked, the first is kept.
C5_Witness ==
    /\ pc = "inner"
    /\ i = 0
    /\ j > 1
    /\ is_duplicate
    /\ to_remove = {j - 1}
    /\ TextLen(0) = TextLen(j - 1)
    /\ TextLen(0) > 0

\* C6: no page is marked for removal by a comparison in which the other page
\* is already marked.  (The inner loop never takes a marked j, so the marked
\* page of such a comparison is i.)
C6_NoCompareWithRemoved ==
    [][(pc = "inner" /\ to_remove' # to_remove) => i \notin to_remove]_vars

Readable(page) ==
    /\ page.filepath # ""
    /\ page.filepath \in DOMAIN ImageFiles
    /\ ImageFiles[page.filepath].readable

DifferingBits(page_i, page_j) ==
    LET h1 == compute_image_hash(page_i.filepath, IMAGE_HASH_SIZE)
        h2 == compute_image_hash(page_j.filepath, IMAGE_HASH_SIZE)
    IN  Cardinality({n \in 1..NPixels : h1[n] # h2[n]})

\* Equality of two payloads whatever the order of the keys of their dicts
RECURSIVE SamePayload(_, _)
SamePayload(x, y) ==
    IF x.t = "dict" /\ y.t = "dict"
    THEN /\ {x.v[n][1] : n \in 1..Len(x.v)} = {y.v[n][1] : n \in 1..Len(y.v)}
         /\ \A n \in 1..Len(x.v) : SamePayload(x.v[n][2], DictGet(y.v, x.v[n][1]))
    ELSE IF x.t = "list" /\ y.t = "list"
    THEN /\ Len(x.v) = Len(y.v)
         /\ \A n \in 1..Len(x.v) : SamePayload(x.v[n], y.v[n])
    ELSE x = y

\* The three criteria of a duplicate pair
DuplicatePair(page_i, page_j, rf) ==
    \/ /\ Readable(page_i) /\ Readable(page_j)
       /\ 10 * DifferingBits(page_i, page_j) < NPixels
    \/ /\ page_i.ocr_text # <<>> /\ page_j.ocr_text # <<>>
       /\ RatGE(text_similarity(page_i.ocr_text, page_j.ocr_text, rf), Rat(9, 10))
    \/ /\ page_i.page_type = page_j.page_type
       /\ page_i.page_type # "unknown"
       /\ SamePayload(page_i.data, page_j.data)

\* C7: from the call to the return of deduplicate_pages the page list under
\* "_unmatched" is the one passed in; at the return every other cluster is
\* a sublist of the one passed in, free of duplicate pairs.
C7_FallbackUntouched ==
    pc \in {"cluster", "outer", "inner", "apply", "done"} =>
        \A k \in 1..Len(clients) :
            IF clients[k].key = "_unmatched"
            THEN clients[k].pages = grouped_in[k].pages
            ELSE pc = "done" =>
                    /\ Len(clients[k].pages) <= Len(grouped_in[k].pages)
                    /\ \A m \in 1..Len(clients[k].pages) :
                          /\ \E n \in 1..Len(grouped_in[k].pages) :
                                grouped_in[k].pages[n] = clients[k].pages[m]
                          /\ \A n \in (m + 1)..Len(clients[k].pages) :
                                ~DuplicatePair(clients[k].pages[m], clients[k].pages[n],
                                               rapidfuzz)

\* deduplicate_pages has returned: the fallback cluster still holds its two
\* duplicate pages while the other cluster has lost a page.
C7_Witness ==
    /\ pc = "done"
    /\ \E k \in 1..Len(clients) :
          /\ clients[k].key = "_unmatched"
          /\ Len(clients[k].pages) = 2
          /\ DuplicatePair(clients[k].pages[1], clients[k].pages[2], rapidfuzz)
    /\ \E k \in 1..Len(clients) :
          /\ clients[k].key # "_unmatched"
          /\ Len(clients[k].pages) < Len(grouped_in[k].pages)

\* C8: the verdict of the inner loop body on a pair is TRUE exactly when one
\* of the three criteria holds; an image that is missing or unreadable only
\* makes the first criterion fail.
C8_DuplicateCriteria ==
    [][Comparing =>
          is_duplicate' = DuplicatePair(clients[ck].pages[i + 1],
                                        clients[ck].pages[j + 1], rapidfuzz)]_vars

\* A page without a readable image was just found a duplicate of a later page
\* with a longer text, by its category and payload alone.
C8_Witness ==
    /\ pc = "inner"
    /\ j > i + 1
    /\ is_duplicate
    /\ i \in to_remove
    /\ (j - 1) \notin to_remove
    /\ ~Readable(clients[ck].pages[i + 1])
    /\ clients[ck].pages[i + 1].ocr_text = <<>>
    /\ DuplicatePair(clients[ck].pages[i + 1], clients[ck].pages[j], rapidfuzz)

SubsetEitherWay(n1, n2) == WordSet(n1) \subseteq WordSet(n2) \/ WordSet(n2) \subseteq WordSet(n1)

SubstringEitherWay(n1, n2) == IsSubstring(n1, n2) \/ IsSubstring(n2, n1)

\* The score of two different names when no containment is found
AnchoredSimilarity(n1, n2) ==
    IF Split(n1)[1] = Split(n2)[1] /\ Len(Split(n1)[1]) >= 3
    THEN RatAdd(SequenceMatcherRatio(n1, n2), Rat(1, 50))
    ELSE SequenceMatcherRatio(n1, n2)

\* C9, as the code has it: with whole-word containment enabled and two
\* non-empty normalised names, a name that is a substring of the other
\* without its words being a subset of the other's words gets no containment
\* score: the score is the similarity of the names (plus 0.02 when they
\* share a first word of 3 letters or more), which is below 0.85 for Ivan and
\* Ivanova in either order; when the words of one name are a subset of the
\* words of the other, the score is at least 0.95.
C9_WordBoundary ==
    (pc = "matched" /\ SUBSTRING_WORD_BOUNDARY_ONLY) =>
        LET n1 == vdb_normalize_name(ocr_name)
            n2 == vdb_normalize_name(db_name)
        IN  (n1 # <<>> /\ n2 # <<>>) =>
                /\ SubsetEitherWay(n1, n2) => RatGE(score, Rat(19, 20))
                /\ (SubstringEitherWay(n1, n2) /\ ~SubsetEitherWay(n1, n2))
                      => RatEQ(score, AnchoredSimilarity(n1, n2))
                /\ {ocr_name, db_name} = {Ivan, Ivanova} => RatLT(score, Rat(17, 20))

\* Ivan was scored against Ivanova with whole-word containment enabled.
C9_Witness ==
    /\ pc = "matched"
    /\ SUBSTRING_WORD_BOUNDARY_ONLY
    /\ ocr_name = Ivan
    /\ db_name = Ivanova
    /\ RatLT(score, Rat(17, 20))

\* C9, as stated: with whole-word containment enabled and two non-empty
\* normalised names, substring without word-subset gives a score below 0.85
\* and word-subset gives a score of at least 0.95.
C9_AsStated ==
    (pc = "matched" /\ SUBSTRING_WORD_BOUNDARY_ONLY) =>
        LET n1 == vdb_normalize_name(ocr_name)
            n2 == vdb_normalize_name(db_name)
        IN  (n1 # <<>> /\ n2 # <<>>) =>
                /\ SubsetEitherWay(n1, n2) => RatGE(score, Rat(19, 20))
                /\ (SubstringEitherWay(n1, n2) /\ ~SubsetEitherWay(n1, n2))
                      => RatLT(score, Rat(17, 20))

\* C10: the score returned by match_names lies in [0, 1].
C10_ScoreInUnitInterval ==
    pc = "matched" => RatGE(score, Zero) /\ RatGE(One, score)

\* The containment test of match_names under each setting
Contained(n1, n2) ==
    IF SUBSTRING_WORD_BOUNDARY_ONLY THEN SubsetEitherWay(n1, n2) ELSE SubstringEitherWay(n1, n2)

\* C11, as the code has it: match_names scores 0.0 when either normalised
\* name is empty; otherwise the first applicable rule decides: equal
\* normalised names score 1.0; else containment (of word sets when whole-word
\* containment is enabled, of substrings when it is not) scores 0.95; else
\* the score is the similarity of the normalised names, plus 0.02 when they
\* share a first word of 3 characters or more.
C11_RuleOrder ==
    pc = "matched" =>
        LET n1 == vdb_normalize_name(ocr_name)
            n2 == vdb_normalize_name(db_name)
        IN  IF n1 = <<>> \/ n2 = <<>> THEN RatEQ(score, Zero)
            ELSE IF n1 = n2 THEN RatEQ(score, One)
            ELSE IF Contained(n1, n2) THEN RatEQ(score, Rat(19, 20))
            ELSE RatEQ(score, AnchoredSimilarity(n1, n2))

\* Ivanov was scored against Ivanov Ivan: the names differ, the words of one
\* are a subset of the words of the other and both start with the same word;
\* containment, the earlier rule, decided.
C11_Witness ==
    /\ pc = "matched"
    /\ ocr_name = Ivanov
    /\ db_name = IvanovIvan
    /\ RatEQ(score, Rat(19, 20))
    /\ ~RatEQ(score, AnchoredSimilarity(vdb_normalize_name(ocr_name), vdb_normalize_name(db_name)))

\* C11, as stated: equal normalised names score 1.0 when the normalised form
\* is non-empty; otherwise word-set containment scores 0.95; otherwise the
\* score is the similarity, plus 0.02 when both names share a first word of 3
\* characters or more.
C11_AsStated ==
    pc = "matched" =>
        LET n1 == vdb_normalize_name(ocr_name)
            n2 == vdb_normalize_name(db_name)
        IN  IF n1 = n2 /\ n1 # <<>> THEN RatEQ(score, One)
            ELSE IF SubsetEitherWay(n1, n2) THEN RatEQ(score, Rat(19, 20))
            ELSE RatEQ(score, AnchoredSimilarity(n1, n2))

\* The words of a text, as written
Words(x) == Split(x.v)

\* Two texts made of the same words, whatever their order
SameWords(x, y) ==
    /\ x.t = "str" /\ y.t = "str"
    /\ Len(Words(x)) = Len(Words(y))
    /\ Len(Words(x)) > 0
    /\ \E p \in Permutations(1..Len(Words(x))) :
           \A n \in 1..Len(Words(x)) : Words(x)[n] = Words(y)[p[n]]

\* The words of a text in their order, letter case and io/ie aside
FoldedWords(x) == Split(ReplaceChar(Lower(x.v), "yo", "e"))

\* C12, as the code has it: two names made of the same words have equal
\* normalised forms under the grouper's normalize_name whatever the order of
\* the words; under the registry matcher's normalize_name they have equal
\* normalised forms exactly when the words are in the same order.
C12_WordOrder ==
    /\ (pc = "normalize_name" /\ SameWords(arg[1], arg[2])) => ret[1] = ret[2]
    /\ (pc = "vdb_normalize_name" /\ SameWords(arg[1], arg[2])) =>
           (ret[1] = ret[2] <=> FoldedWords(arg[1]) = FoldedWords(arg[2]))

\* The registry matcher's normalize_name was applied to Ivanov Petr and Petr
\* Ivanov and returned two different strings.
C12_Witness ==
    /\ pc = "vdb_normalize_name"
    /\ arg = <<PyStr(IvanovPetr), PyStr(PetrIvanov)>>
    /\ ret[1] # ret[2]

\* C12, as stated: under both normalizers two names made of the same words
\* in a different order have equal normalised forms.
C12_AsStated ==
    (pc \in {"normalize_name", "vdb_normalize_name"} /\ SameWords(arg[1], arg[2])) =>
        ret[1] = ret[2]

\* The digits of the text of a value
DigitsOf(x) == SelectSeq(x.v, IsDigit)

\* The value carries a digit: a number other than a missing cell, or a text
\* with a digit in it
CarriesDigits(x) ==
    CASE x.t \in {"str", "int"} -> DigitsOf(x) # <<>>
      [] x.t = "float" -> x.v # NaN
      [] OTHER -> FALSE

\* C13: normalize_phone returns a digits-only string; for a text or an
\* integer it is the digits of the input with a leading 8 of 11 digits
\* replaced by 7, with 7 prepended to 10 digits, and unchanged otherwise; the
\* result is empty only when the input carries no digits.
C13_PhoneDigits ==
    pc = "normalize_phone" =>
        \A k \in 1..2 :
            /\ \A n \in 1..Len(ret[k]) : IsDigit(ret[k][n])
            /\ arg[k].t \in {"str", "int"} =>
                   ret[k] = IF Len(DigitsOf(arg[k])) = 11 /\ DigitsOf(arg[k])[1] = "8"
                            THEN <<"7">> \o Tail(DigitsOf(arg[k]))
                            ELSE IF Len(DigitsOf(arg[k])) = 10
                            THEN <<"7">> \o DigitsOf(arg[k])
                            ELSE DigitsOf(arg[k])
            /\ ret[k] = <<>> => ~CarriesDigits(arg[k])

\* a < b, by code points, as sorted() orders two different str
AlphabeticallyBefore(a, b) == a # b /\ SortWords(<<a, b>>) = <<a, b>>

\* The distinct non-empty normalised names of the registry rows
DistinctNames(df) == {df[n].name_norm : n \in 1..Len(df)} \ {<<>>}

\* The external id the index gives to a normalised name
IdOf(index, name) == index[IndexPos(index, name)].db_id

\* The rows of df in the order p
Reordered(df, p) == [n \in 1..Len(df) |-> df[p[n]]]

\* C14: build_db_client_index gives each distinct non-empty normalised name
\* exactly one entry, whose external id is DB- followed by the 4-digit,
\* 1-based alphabetical rank of the name among the distinct names; the ids
\* are pairwise distinct; every reordering of the rows gives every name the
\* same id.
C14_StableIds ==
    pc = "verify_clients" =>
        /\ {db_index[k].key : k \in 1..Len(db_index)} = DistinctNames(db_df)
        /\ Len(db_index) = Cardinality(DistinctNames(db_df))
        /\ \A k \in 1..Len(db_index) :
               db_index[k].db_id =
                   FormatDbId(1 + Cardinality({n \in DistinctNames(db_df) :
                                                  AlphabeticallyBefore(n, db_index[k].key)}))
        /\ \A k, m \in 1..Len(db_index) : k # m => db_index[k].db_id # db_index[m].db_id
        /\ \A p \in Permutations(1..Len(db_df)) :
               \A n \in DistinctNames(db_df) :
                   IdOf(build_db_client_index(Reordered(db_df, p)), n) = IdOf(db_index, n)

\* The index was built from rows in which ivanov ivan comes before ivanov:
\* the first entry got the id DB-0002 and the second DB-0001.
C14_Witness ==
    /\ pc = "verify_clients"
    /\ Len(db_index) >= 2
    /\ db_index[1].db_id = <<"D", "B", "-", "0", "0", "0", "2">>
    /\ db_index[2].db_id = <<"D", "B", "-", "0", "0", "0", "1">>

\* The row of the report written last; match is what find_best_match
\* returned for it.
LastRow == verified[Len(verified)]
LastPhone == normalize_phone(PyStr(LastRow.ocr_phone))

\* The phone of the client equals the phone of entry k, both non-empty
PhoneEqual(k) == LastPhone # <<>> /\ db_index[k].phone # <<>> /\ LastPhone = db_index[k].phone

\* The score of entry k for the client of the last row
EntryScore(k) ==
    RatMin(One, RatAdd(match_names(LastRow.ocr_fio, db_index[k].name_orig.v,
                                   SUBSTRING_WORD_BOUNDARY_ONLY),
                       IF PhoneEqual(k) THEN Rat(1, 5) ELSE Zero))

\* match is the first of the entries of K with the highest score, or None
\* when K is empty
ReturnsFirstBestOf(K) ==
    IF K = {} THEN match = PyNone
    ELSE LET top == {k \in K : \A m \in K : RatGE(EntryScore(k), EntryScore(m))}
             first == CHOOSE k \in top : \A m \in top : k <= m
         IN  /\ match # PyNone
             /\ match.db_name_norm = db_index[first].key
             /\ match.db_id = db_index[first].db_id
             /\ RatEQ(match.score, EntryScore(first))
             /\ match.phone_match = PhoneEqual(first)

\* C15, as the code has it: find_best_match scores every entry as
\* min(1.0, match_names + 0.20 when both normalised phones are non-empty and
\* equal) and returns the first, in the order of the index, of the entries
\* with the highest score among those whose score is above 0 and at least
\* the threshold; it returns no match exactly when there is no such entry.
C15_BestMatch ==
    verified # <<>> =>
        ReturnsFirstBestOf({k \in 1..Len(db_index) :
                               RatLT(Zero, EntryScore(k)) /\ RatGE(EntryScore(k), db_threshold)})

\* Two entries reached the score 1.0 for the client and the first entry of
\* the index was returned.
C15_Witness ==
    /\ verified # <<>>
    /\ match # PyNone
    /\ Len(db_index) >= 2
    /\ match.db_name_norm = db_index[1].key
    /\ RatEQ(EntryScore(1), One)
    /\ RatEQ(EntryScore(2), One)

\* C15, as stated: the entries considered are all those whose score is at
\* least the threshold.
C15_AsStated ==
    verified # <<>> =>
        ReturnsFirstBestOf({k \in 1..Len(db_index) : RatGE(EntryScore(k), db_threshold)})

\* The number of words of the name of the last row
LastWords == Len(Split(LastRow.ocr_fio))

FoundCondition == match.phone_match \/ (LastWords >= 2 /\ RatGE(match.score, Rat(17, 20)))

C17_OneWordNotFound ==
    (verified # <<>> /\ LastWords = 1 /\ (match = PyNone \/ ~match.phone_match)) =>
        /\ LastRow.status_bd # STATUS_DB_FOUND
        /\ match # PyNone => LastRow.status_bd = STATUS_DB_MAYBE
        /\ match = PyNone => LastRow.status_bd = STATUS_DB_NOT_FOUND

\* A one-word name matched a registry name with the score 1.0 without a
\* phone match and was classified Maybe.
C17_Witness ==
    /\ verified # <<>>
    /\ LastWords = 1
    /\ match # PyNone
    /\ ~match.phone_match
    /\ RatEQ(match.score, One)
    /\ LastRow.status_bd = STATUS_DB_MAYBE

\* C18: whenever the normalised phone of the client is non-empty and equals
\* the phone of a registry entry whose score is at least the threshold, the
\* client is classified Found.
C18_PhoneMatchFound ==
    (verified # <<>> /\ \E k \in 1..Len(db_index) :
                           PhoneEqual(k) /\ RatGE(EntryScore(k), db_threshold)) =>
        LastRow.status_bd = STATUS_DB_FOUND

\* The pages of the main loop handled so far
Handled == {sorted_results[n] : n \in 1..(idx - 1)}

\* C19: group_by_client never raises, whatever the payloads of the pages,
\* and in its main loop every page without identifiers is put into the
\* fallback list.
C19_NeverRaises ==
    /\ pc # "raised"
    /\ pc = "group" =>
           \A p \in Handled :
               HasNoIdentifiers(extract_identifiers(p)) =>
                   \E n \in 1..Len(unmatched) : unmatched[n] = p

InRange(t) == RatGE(t, Zero) /\ RatGE(One, t)

\* The page carries a name and neither a phone nor a national id
FioOnly(p) ==
    LET ids == extract_identifiers(p)
    IN  p.page_type # "error" /\ Truthy(ids.fio) /\ ~Truthy(ids.phone) /\ ~Truthy(ids.iin)

HasFio(p) == Truthy(extract_identifiers(p).fio)

\* C20, as the code has it: no call checks its contract.  No call raises;
\* deduplicate_pages passes over the fallback cluster and returns it as it
\* was; group_by_client uses a threshold out of range as given: below 0
\* every page with a name ends up in the first cluster, above 1 no page
\* joins a cluster by its name, so that there are at least as many clusters
\* as pages with nothing but a name; deduplicate_pages with a threshold below
\* 0 leaves at most one page with text in a cluster it went through;
\* find_best_match with a threshold above 1 returns no match, and with a
\* threshold below 0 every entry with a positive score can be returned.
C20_NoContractCheck ==
    /\ pc # "raised"
    /\ pc = "done" =>
           \A k \in 1..Len(clients) :
               clients[k].key = "_unmatched" => clients[k].pages = grouped_in[k].pages
    /\ (pc = "grouped" /\ results # <<>> /\ RatLT(fuzzy_threshold, Zero)) =>
           \A k \in 2..Len(clients) :
               \A n \in 1..Len(clients[k].pages) : ~HasFio(clients[k].pages[n])
    /\ (pc = "grouped" /\ results # <<>> /\ RatLT(One, fuzzy_threshold)) =>
           Cardinality({n \in 1..Len(results) : FioOnly(results[n])}) <= Len(clients)
    /\ (pc = "done" /\ RatLT(ocr_threshold, Zero)) =>
           \A k \in 1..Len(clients) :
               clients[k].key # "_unmatched" =>
                   Cardinality({n \in 1..Len(clients[k].pages) :
                                   clients[k].pages[n].ocr_text # <<>>}) <= 1
    /\ (verified # <<>> /\ RatLT(One, db_threshold)) =>
           match = PyNone /\ LastRow.status_bd = STATUS_DB_NOT_FOUND
    /\ (verified # <<>> /\ RatLT(db_threshold, Zero)) =>
           (match = PyNone <=> \A k \in 1..Len(db_index) : RatEQ(EntryScore(k), Zero))

\* group_by_client has returned under a threshold below 0: a card of Ivanova
\* Anna and a sheet of Petr, which share neither phone nor national id, are
\* in one cluster.
C20_Witness ==
    /\ pc = "grouped"
    /\ RatLT(fuzzy_threshold, Zero)
    /\ Len(clients) = 1
    /\ \E m, n \in 1..Len(clients[1].pages) :
           /\ clients[1].pages[m].data = FrontPage.data
           /\ clients[1].pages[n].data = IinPetrPage.data

\* C20, as stated: a call outside its contract fails at once, so that
\* group_by_client gets past its set-up only with a threshold in [0, 1],
\* deduplicate_pages gets past its set-up only with a threshold in [0, 1]
\* and without the fallback cluster, and find_best_match returns only for a
\* threshold in [0, 1].
C20_AsStated ==
    /\ pc \in {"group", "rematch"} => InRange(fuzzy_threshold)
    /\ pc \in {"cluster", "outer", "inner", "apply", "done"} =>
           /\ InRange(ocr_threshold)
           /\ \A k \in 1..Len(grouped_in) : grouped_in[k].key # "_unmatched"
    /\ verified # <<>> => InRange(db_threshold)

\* The page was set aside by the main loop of group_by_client: an OCR error
\* page or a page without identifiers.
SetAside(page) ==
    page.page_type = "error" \/ HasNoIdentifiers(extract_identifiers(page))

\* C21: after group_by_client followed by deduplicate_pages every page that
\* was set aside (an error page or a page without identifiers) is still in
\* one of the clusters.
C21_SetAsideKept ==
    pc = "done" =>
        \A n \in 1..Len(results) :
            SetAside(results[n]) =>
                \E s \in Slots(clients) : clients[s[1]].pages[s[2]] = results[n]

\* The pages of cluster k that the pass removed: in the argument, not in
\* the result.
RemovedPages(k) ==
    {p \in {grouped_in[k].pages[n] : n \in 1..Len(grouped_in[k].pages)} :
        \A m \in 1..Len(clients[k].pages) : clients[k].pages[m] # p}

\* C22: when deduplicate_pages returns, every page it removed from a cluster
\* forms a duplicate pair with a page that is still in that cluster.
C22_RemovedHasCopy ==
    pc = "done" =>
        \A k \in 1..Len(clients) :
            \A p \in RemovedPages(k) :
                \E m \in 1..Len(clients[k].pages) :
                    \/ DuplicatePair(p, clients[k].pages[m], rapidfuzz)
                    \/ DuplicatePair(clients[k].pages[m], p, rapidfuzz)

\* cl2 is cl with the page appended to a cluster that holds the national id
\* of the page
JoinsIinHolder(page, cl, cl2) ==
    \E k \in 1..Len(cl) :
        /\ k <= Len(cl2)
        /\ IinKey(cl[k].iin) = IinKey(extract_identifiers(page).iin)
        /\ cl2[k].pages = Append(cl[k].pages, page)

\* C23: whenever group_by_client matches a page whose non-empty national id
\* equals the one of an existing cluster, the page is appended to a cluster
\* that holds this national id, whatever the phones and names of the
\* clusters created before it.
C23_IinFirst ==
    [][/\ (/\ pc = "group"
           /\ idx <= Len(sorted_results)
           /\ sorted_results[idx].page_type # "error"
           /\ SharesIin(sorted_results[idx], clients))
          => JoinsIinHolder(sorted_results[idx], clients, clients')
       /\ (/\ pc = "rematch"
           /\ idx <= Len(unmatched)
           /\ SharesIin(unmatched[idx], clients))
          => JoinsIinHolder(unmatched[idx], clients, clients')]_vars

\* The last page of a cluster
NewestPage(client) == client.pages[Len(client.pages)]

\* The field went from old to new by a backfill: old was empty and new is
\* the non-empty value that the page just appended supplies.
Backfilled(old, new, supplied) ==
    ~Truthy(old) /\ Truthy(new) /\ new = supplied

\* A step keeps every existing cluster's name, and its phone and national
\* id unless the field was empty and takes the value of the page appended.
KeepsIdentity ==
    \A k \in 1..Len(clients) :
        /\ k <= Len(clients')
        /\ clients'[k].key = clients[k].key
        /\ clients'[k].name = clients[k].name
        /\ (clients'[k].phone = clients[k].phone
            \/ Backfilled(clients[k].phone, clients'[k].phone,
                          extract_identifiers(NewestPage(clients'[k])).phone))
        /\ (clients'[k].iin = clients[k].iin
            \/ Backfilled(clients[k].iin, clients'[k].iin,
                          extract_identifiers(NewestPage(clients'[k])).iin))

\* C24: in every step of group_by_client each existing cluster keeps its
\* name, and it keeps its phone and its national id unless the field was
\* empty and takes the value of the page appended by this step.
C24_BackfillOnly ==
    [][(pc \in {"group", "rematch"}) => KeepsIdentity]_vars

\* group_by_client has returned a cluster named after its first page, which
\* has a national id and no phone; the cluster's phone was backfilled by a
\* later page, and a page after that one brought another phone, which the
\* cluster did not take.
C24_Witness ==
    /\ pc = "grouped"
    /\ \E k \in 1..Len(clients) :
          /\ Truthy(clients[k].phone)
          /\ Truthy(clients[k].iin)
          /\ ~Truthy(extract_identifiers(clients[k].pages[1]).phone)
          /\ clients[k].name = extract_identifiers(clients[k].pages[1]).fio
          /\ \E m \in 2..Len(clients[k].pages) :
                /\ extract_identifiers(clients[k].pages[m]).phone = clients[k].phone
                /\ \E n \in (m + 1)..Len(clients[k].pages) :
                      LET ids == extract_identifiers(clients[k].pages[n])
                      IN  Truthy(ids.phone) /\ ids.phone # clients[k].phone

\* C25: when deduplicate_pages returns, no two pages left in a cluster it
\* went through are found duplicates by the three checks; and when it runs
\* on its own output, it marks no page and every cluster stays as passed in.
C25_Idempotent ==
    /\ pc = "done" =>
           \A k \in 1..Len(clients) :
               clients[k].key # "_unmatched" =>
                   \A m \in 1..Len(clients[k].pages) :
                       \A n \in (m + 1)..Len(clients[k].pages) :
                           ~IsDuplicate(clients[k].pages[m], clients[k].pages[n],
                                        PageHash(clients[k].pages[m]),
                                        PageHash(clients[k].pages[n]), rapidfuzz)
    /\ rerun => to_remove = {} /\ clients = grouped_in

\* The second run has returned on a cluster from which the first run had
\* removed the middle page of three.
C25_Witness ==
    /\ rerun
    /\ pc = "done"
    /\ \E k \in 1..Len(clients) :
          /\ clients[k].key # "_unmatched"
          /\ PageNames(clients[k].pages) = <<"1.jpg", "3.jpg">>

\* The number (from 1) of the first page with the longest ocr_text
FirstLongest(pages) ==
    CHOOSE m \in 1..Len(pages) :
        /\ \A n \in 1..Len(pages) : Len(pages[n].ocr_text) <= Len(pages[m].ocr_text)
        /\ \A n \in 1..(m - 1) : Len(pages[n].ocr_text) < Len(pages[m].ocr_text)

\* C26: deduplicate_pages never marks the first page with the longest
\* ocr_text of the cluster it scans, and when it returns every cluster that
\* had a page still has that page, hence is not empty.
C26_LongestKept ==
    /\ pc \in {"outer", "inner", "apply"} =>
           (FirstLongest(clients[ck].pages) - 1) \notin to_remove
    /\ pc = "done" =>
           \A k \in 1..Len(clients) :
               grouped_in[k].pages # <<>> =>
                   /\ clients[k].pages # <<>>
                   /\ \E m \in 1..Len(clients[k].pages) :
                         clients[k].pages[m]
                             = grouped_in[k].pages[FirstLongest(grouped_in[k].pages)]

\* deduplicate_pages has returned a cluster of one page, the last of the
\* three passed in, which has the longest text: both earlier pages were
\* removed.
C26_Witness ==
    /\ pc = "done"
    /\ \E k \in 1..Len(clients) :
          /\ Len(grouped_in[k].pages) = 3
          /\ FirstLongest(grouped_in[k].pages) = 3
          /\ clients[k].pages = <<grouped_in[k].pages[3]>>

\* What find_best_match returns for the client of the last row when the
\* index is built from the registry rows in the order p
MatchUnder(p) ==
    find_best_match(LastRow.ocr_fio, LastRow.ocr_phone,
                    build_db_client_index(Reordered(db_df, p)), db_threshold)

\* Two results of find_best_match name the same entry with the same score
\* and the same phone flag, or are both None
SameMatch(m1, m2) ==
    IF m1 = PyNone \/ m2 = PyNone THEN m1 = m2
    ELSE /\ m1.db_id = m2.db_id
         /\ RatEQ(m1.score, m2.score)
         /\ m1.phone_match = m2.phone_match

\* C27: for the client of a report row and the threshold of the run,
\* find_best_match returns the same entry (external id, score, phone flag)
\* over the index built from any reordering of the registry rows.
C27_OrderIndependent ==
    verified # <<>> =>
        \A p \in Permutations(1..Len(db_df)) : SameMatch(MatchUnder(p), match)

\* A scalar that is not empty
NonEmptyScalar(x) == x.t \in {"str", "int", "float"} /\ x # EmptyStr

\* The aliases (numbers in the alias list) under which data holds a
\* non-empty scalar
Holding(data, paths) ==
    {n \in 1..Len(paths) :
        WalkPath(data, paths[n]).ok /\ NonEmptyScalar(WalkPath(data, paths[n]).val)}

\* The value of the first alias that holds a non-empty scalar
FirstHeld(data, paths) ==
    WalkPath(data, paths[CHOOSE n \in Holding(data, paths) :
                             \A m \in Holding(data, paths) : n <= m]).val

\* The canonical field of the enriched payload is the first non-empty
\* scalar among the aliases, whitespace collapsed and yo folded to e
Canonical(enriched, data, field, paths) ==
    Holding(data, paths) # {} =>
        /\ DictHas(enriched, field)
        /\ DictGet(enriched, field) = PyStr(_normalize_simple(FirstHeld(data, paths)))

\* C28: whenever an alias of fio, phone or iin holds a non-empty scalar, the
\* canonical field of the payload returned by collect_name_phone_iin is the
\* first such value in the alias order, normalised.
C28_AliasOrder ==
    pc = "collected" =>
        /\ Canonical(ret[1], arg[1], "fio", aliases_fio)
        /\ Canonical(ret[1], arg[1], "phone", aliases_phone)
        /\ Canonical(ret[1], arg[1], "iin", aliases_iin)

\* The column of the result under a key of texts
Column(result, key) ==
    CASE key = "front" -> result.front
      [] key = "inner" -> result.inner
      [] key = "procedures" -> result.procedures
      [] key = "products" -> result.products
      [] key = "complex" -> result.complex
      [] key = "botox" -> result.botox

\* The pages with text whose category (unknown pages: procedures) is key
PagesOf(pages, key) ==
    {n \in 1..Len(pages) :
        pages[n].ocr_text # <<>> /\ TextKeyOf(pages[n].page_type) = key}

\* C29: collect_ocr_texts puts the text of each page into the column of the
\* page's own category (procedures for an unknown page) and into full, and
\* into no other column; a column of a category without a page with text is
\* empty.
C29_OwnColumnOnly ==
    pc = "collected_texts" =>
        \A n \in 1..Len(TextKeys) :
            LET key == TextKeys[n]
            IN  /\ PagesOf(arg[1], key) = {} => Column(ret[1], key) = <<>>
                /\ \A m \in 1..Len(arg[1]) :
                      arg[1][m].ocr_text # <<>> =>
                          /\ IsSubstring(arg[1][m].ocr_text, ret[1].full)
                          /\ IsSubstring(arg[1][m].ocr_text, Column(ret[1], key))
                                <=> m \in PagesOf(arg[1], key)

\* The positions of the returned list that hold a result for the image f
ResultsOf(f) == {n \in 1..Len(page_results) : page_results[n].filename = f}

\* C30: when process_all_images returns, the returned list holds exactly one
\* result for every image of the input folder (from the cache, freshly parsed,
\* or an error page), whatever registry and cache earlier runs left behind.
C30_OneResultEach ==
    pc = "returned" =>
        /\ Len(page_results) = Len(image_files)
        /\ \A n \in 1..Len(image_files) : Cardinality(ResultsOf(image_files[n])) = 1

====
